---------------------------- MODULE Spec2Model ----------------------------
(***************************************************************************)
(* A model of the MAIDOS IME core (src/MAIDOS-IME/src/MAIDOS.IME.Core):    *)
(* the Dictionary store and its file loader, the PinyinParser with its     *)
(* result cache, and the ImeEngine that owns both.                         *)
(*                                                                         *)
(* Text.  A std::wstring is a TLA+ string; s[i] (0-based) is CharAt(s, i). *)
(* Wide characters outside ASCII are written with ASCII stand-ins ("N" for *)
(* the word of "ni", "H" for the word of "hao"); the code only compares    *)
(* and concatenates them.                                                  *)
(*                                                                         *)
(* Numbers.  An unsigned int is 32 bits wide; it is kept as a pair         *)
(* <<hi, lo>> of 16-bit halves (value = hi * 65536 + lo), so that the full *)
(* range is represented exactly.                                           *)
(***************************************************************************)
EXTENDS Integers, Sequences, FiniteSets, TLC

---------------------------------------------------------------------------
(* unsigned int                                                            *)

Half == 2 ^ 16

U32(n) == <<n \div Half, n % Half>>

U32Max == <<Half - 1, Half - 1>>

U32Less(a, b) == a[1] < b[1] \/ (a[1] = b[1] /\ a[2] < b[2])

\* std::min(a, b): b < a ? b : a
U32Min(a, b) == IF U32Less(b, a) THEN b ELSE a

\* static_cast<int>(unsigned int), two's complement
U32ToInt(a) ==
    IF a[1] < Half \div 2 THEN a[1] * Half + a[2]
    ELSE (a[1] - Half) * Half + a[2]

---------------------------------------------------------------------------
(* std::wstring                                                            *)

CharAt(s, i) == SubSeq(s, i + 1, i + 1)

\* s.substr(pos) and s.substr(pos, n)
SubstrFrom(s, pos) == SubSeq(s, pos + 1, Len(s))
Substr(s, pos, n) == SubSeq(s, pos + 1, IF pos + n > Len(s) THEN Len(s) ELSE pos + n)

\* iswspace
IsSpace(ch) == ch \in {" ", "\t", "\n", "\f", "\r"}

\* iswdigit
Digits == "0123456789"
RECURSIVE IndexIn(_, _, _)
\* 0-based index of ch in table at or after i, -1 when absent
IndexIn(table, ch, i) ==
    IF i >= Len(table) THEN -1
    ELSE IF CharAt(table, i) = ch THEN i
    ELSE IndexIn(table, ch, i + 1)
IsDigit(ch) == IndexIn(Digits, ch, 0) >= 0
DigitVal(ch) == IndexIn(Digits, ch, 0)

\* The printable ASCII characters, code 32 first (code 96 has no TLA+ spelling: "?").
Ascii == " !\"#$%&'()*+,-./0123456789:;<=>?@ABCDEFGHIJKLMNOPQRSTUVWXYZ[\\]^_?abcdefghijklmnopqrstuvwxyz{|}~"

\* static_cast<wchar_t>(code); a code outside the tables is written "?"
CodeToChar(code) ==
    IF code >= 32 /\ code <= 126 THEN CharAt(Ascii, code - 32)
    ELSE IF code = 9 THEN "\t"
    ELSE IF code = 10 THEN "\n"
    ELSE IF code = 12 THEN "\f"
    ELSE IF code = 13 THEN "\r"
    ELSE "?"

\* content.find(pat, from): 0-based index of the first occurrence, -1 for npos
RECURSIVE Find(_, _, _)
Find(s, pat, from) ==
    IF from + Len(pat) > Len(s) THEN -1
    ELSE IF Substr(s, from, Len(pat)) = pat THEN from
    ELSE Find(s, pat, from + 1)

---------------------------------------------------------------------------
(* The dictionary file reader (dictionary.cpp, anonymous namespace).       *)
(* Every reader takes the text and the position i and returns a record     *)
(* with ok (the bool result), i (the position by reference) and, where the *)
(* code has an out parameter, out.                                         *)

\* A local variable of the code: value is computed once, then Body reads it.
With(value, Body(_)) == CHOOSE r \in {Body(v) : v \in {value}} : TRUE

RECURSIVE SkipWs(_, _)
SkipWs(s, i) ==
    IF i < Len(s) /\ IsSpace(CharAt(s, i)) THEN SkipWs(s, i + 1) ELSE i

Consume(s, i, ch) ==
    LET j == SkipWs(s, i) IN
    IF j >= Len(s) \/ CharAt(s, j) # ch
    THEN [ok |-> FALSE, i |-> j]
    ELSE [ok |-> TRUE, i |-> j + 1]

HexDigits == "0123456789abcdef"
HexUpper == "0123456789ABCDEF"
\* value of a hex digit, -1 when h is none
HexVal(h) ==
    IF IndexIn(HexDigits, h, 0) >= 0 THEN IndexIn(HexDigits, h, 0)
    ELSE IndexIn(HexUpper, h, 0)

\* the for (k = 0; k < 4; k++) loop of the \uXXXX escape: code, or -1
RECURSIVE ParseHex4(_, _, _, _)
ParseHex4(s, i, k, code) ==
    IF k >= 4 THEN code
    ELSE IF HexVal(CharAt(s, i)) < 0 THEN -1
    ELSE ParseHex4(s, i + 1, k + 1, code * 16 + HexVal(CharAt(s, i)))

\* the character a one-letter escape stands for (\b has no TLA+ spelling: "?")
Unescape(esc) ==
    CASE esc = "b" -> "?"
      [] esc = "f" -> "\f"
      [] esc = "n" -> "\n"
      [] esc = "r" -> "\r"
      [] esc = "t" -> "\t"
      [] OTHER -> esc

RECURSIVE ParseStringLoop(_, _, _)
ParseStringLoop(s, i, result) ==
    IF i >= Len(s) THEN [ok |-> FALSE, i |-> i, out |-> ""]
    ELSE
      LET ch == CharAt(s, i) IN
      IF ch = "\"" THEN [ok |-> TRUE, i |-> i + 1, out |-> result]
      ELSE IF ch = "\\" THEN
        IF i + 1 >= Len(s) THEN [ok |-> FALSE, i |-> i + 1, out |-> ""]
        ELSE
          LET esc == CharAt(s, i + 1) IN
          IF esc = "u" THEN
            IF i + 2 + 4 > Len(s) THEN [ok |-> FALSE, i |-> i + 2, out |-> ""]
            ELSE
              LET code == ParseHex4(s, i + 2, 0, 0) IN
              IF code < 0 THEN [ok |-> FALSE, i |-> i + 2, out |-> ""]
              ELSE ParseStringLoop(s, i + 6, result \o CodeToChar(code))
          ELSE ParseStringLoop(s, i + 2, result \o Unescape(esc))
      ELSE ParseStringLoop(s, i + 1, result \o ch)

ParseString(s, i) ==
    LET j == SkipWs(s, i) IN
    IF j >= Len(s) \/ CharAt(s, j) # "\""
    THEN [ok |-> FALSE, i |-> j, out |-> ""]
    ELSE ParseStringLoop(s, j + 1, "")

\* value = value * 10 + digit without the clamp, cut to 32 bits by the cast
U32TimesTenPlusWrapping(v, d) ==
    LET lo == v[2] * 10 + d
        hi == v[1] * 10 + (lo \div Half)
    IN  <<hi % Half, lo % Half>>

\* value = value * 10 + digit on an unsigned long long, clamped to 0xFFFFFFFF
U32TimesTenPlus(v, d) ==
    LET lo == v[2] * 10 + d
        hi == v[1] * 10 + (lo \div Half)
    IN  IF hi >= Half THEN U32Max ELSE <<hi, lo % Half>>

RECURSIVE ParseDigits(_, _, _)
ParseDigits(s, i, value) ==
    IF i < Len(s) /\ IsDigit(CharAt(s, i))
    THEN With(U32TimesTenPlus(value, DigitVal(CharAt(s, i))), LAMBDA next :
           ParseDigits(s, i + 1, next))
    ELSE [i |-> i, out |-> value]

ParseUnsigned(s, i) ==
    LET j == SkipWs(s, i) IN
    IF j >= Len(s) \/ ~IsDigit(CharAt(s, j))
    THEN [ok |-> FALSE, i |-> j, out |-> U32(0)]
    ELSE LET r == ParseDigits(s, j, U32(0)) IN
         [ok |-> TRUE, i |-> r.i, out |-> r.out]

\* SkipWs, then an optional comma
SkipComma(s, i) ==
    LET j == SkipWs(s, i) IN
    IF j < Len(s) /\ CharAt(s, j) = "," THEN j + 1 ELSE j

\* number / true / false / null: up to a separator
RECURSIVE SkipBare(_, _)
SkipBare(s, i) ==
    IF i < Len(s) /\ CharAt(s, i) \notin {",", "}", "]"} /\ ~IsSpace(CharAt(s, i))
    THEN SkipBare(s, i + 1)
    ELSE i

RECURSIVE SkipValue(_, _)
RECURSIVE SkipObjectLoop(_, _)
RECURSIVE SkipArrayLoop(_, _)

SkipObjectLoop(s, i0) ==
    IF i0 >= Len(s) THEN [ok |-> FALSE, i |-> i0]
    ELSE With(SkipWs(s, i0), LAMBDA i :
      IF i >= Len(s) THEN [ok |-> FALSE, i |-> i]
      ELSE IF CharAt(s, i) = "}" THEN [ok |-> TRUE, i |-> i + 1]
      ELSE With(ParseString(s, i), LAMBDA key :
        IF ~key.ok THEN [ok |-> FALSE, i |-> key.i]
        ELSE With(Consume(s, key.i, ":"), LAMBDA colon :
          IF ~colon.ok THEN [ok |-> FALSE, i |-> colon.i]
          ELSE With(SkipValue(s, colon.i), LAMBDA val :
            IF ~val.ok THEN [ok |-> FALSE, i |-> val.i]
            ELSE SkipObjectLoop(s, SkipComma(s, val.i))))))

SkipObject(s, i) ==
    LET open == Consume(s, i, "{") IN
    IF ~open.ok THEN [ok |-> FALSE, i |-> open.i]
    ELSE SkipObjectLoop(s, open.i)

SkipArrayLoop(s, i0) ==
    IF i0 >= Len(s) THEN [ok |-> FALSE, i |-> i0]
    ELSE
      With(SkipWs(s, i0), LAMBDA i :
      IF i >= Len(s) THEN [ok |-> FALSE, i |-> i]
      ELSE IF CharAt(s, i) = "]" THEN [ok |-> TRUE, i |-> i + 1]
      ELSE With(SkipValue(s, i), LAMBDA val :
        IF ~val.ok THEN [ok |-> FALSE, i |-> val.i]
        ELSE SkipArrayLoop(s, SkipComma(s, val.i))))

SkipArray(s, i) ==
    LET open == Consume(s, i, "[") IN
    IF ~open.ok THEN [ok |-> FALSE, i |-> open.i]
    ELSE SkipArrayLoop(s, open.i)

SkipValue(s, i0) ==
    With(SkipWs(s, i0), LAMBDA i :
    IF i >= Len(s) THEN [ok |-> FALSE, i |-> i]
    ELSE IF CharAt(s, i) = "\"" THEN
      With(ParseString(s, i), LAMBDA tmp : [ok |-> tmp.ok, i |-> tmp.i])
    ELSE IF CharAt(s, i) = "{" THEN SkipObject(s, i)
    ELSE IF CharAt(s, i) = "[" THEN SkipArray(s, i)
    ELSE With(SkipBare(s, i), LAMBDA j : [ok |-> j > i, i |-> j]))

RECURSIVE ParseTagsLoop(_, _, _)
ParseTagsLoop(s, i0, tags) ==
    IF i0 >= Len(s) THEN [ok |-> FALSE, i |-> i0, out |-> tags]
    ELSE
      With(SkipWs(s, i0), LAMBDA i :
      IF i >= Len(s) THEN [ok |-> FALSE, i |-> i, out |-> tags]
      ELSE IF CharAt(s, i) = "]" THEN [ok |-> TRUE, i |-> i + 1, out |-> tags]
      ELSE With(ParseString(s, i), LAMBDA tag :
        IF ~tag.ok THEN [ok |-> FALSE, i |-> tag.i, out |-> tags]
        ELSE ParseTagsLoop(s, SkipComma(s, tag.i), Append(tags, tag.out))))

ParseTags(s, i) ==
    LET open == Consume(s, i, "[") IN
    IF ~open.ok THEN [ok |-> FALSE, i |-> open.i, out |-> <<>>]
    ELSE ParseTagsLoop(s, open.i, <<>>)

\* Dictionary::DictEntry{}: empty strings, frequency 0, no tags
EmptyEntry == [word |-> "", frequency |-> U32(0), pronunciation |-> "", tags |-> <<>>]

DictEntry(w, f, p, t) == [word |-> w, frequency |-> U32(f), pronunciation |-> p, tags |-> t]

RECURSIVE ParseEntryLoop(_, _, _)
ParseEntryLoop(s, i0, entry) ==
    IF i0 >= Len(s) THEN [ok |-> FALSE, i |-> i0, out |-> entry]
    ELSE
      With(SkipWs(s, i0), LAMBDA i :
      IF i >= Len(s) THEN [ok |-> FALSE, i |-> i, out |-> entry]
      ELSE IF CharAt(s, i) = "}" THEN [ok |-> TRUE, i |-> i + 1, out |-> entry]
      ELSE With(ParseString(s, i), LAMBDA key :
        IF ~key.ok THEN [ok |-> FALSE, i |-> key.i, out |-> entry]
        ELSE With(Consume(s, key.i, ":"), LAMBDA colon :
          IF ~colon.ok THEN [ok |-> FALSE, i |-> colon.i, out |-> entry]
          ELSE With(CASE key.out = "word" -> ParseString(s, colon.i)
                      [] key.out = "frequency" -> ParseUnsigned(s, colon.i)
                      [] key.out = "pronunciation" -> ParseString(s, colon.i)
                      [] key.out = "tags" -> ParseTags(s, colon.i)
                      [] OTHER -> SkipValue(s, colon.i), LAMBDA val :
            IF ~val.ok THEN [ok |-> FALSE, i |-> val.i, out |-> entry]
            ELSE ParseEntryLoop(s, SkipComma(s, val.i),
                     IF key.out \in {"word", "frequency", "pronunciation", "tags"}
                     THEN [entry EXCEPT ![key.out] = val.out]
                     ELSE entry)))))

ParseEntryObject(s, i) ==
    LET open == Consume(s, i, "{") IN
    IF ~open.ok THEN [ok |-> FALSE, i |-> open.i, out |-> EmptyEntry]
    ELSE ParseEntryLoop(s, open.i, EmptyEntry)

---------------------------------------------------------------------------
(* Dictionary (dictionary.cpp).  m_entries, a std::map from pronunciation  *)
(* key to a vector of DictEntry, is a function from its keys to non-empty  *)
(* sequences.  The version and timestamp strings are informational and are *)
(* not modelled.                                                           *)

EmptyMap == [k \in {} |-> <<>>]

\* Lookup with lower_bound in place of find: a missing key gets the entries
\* of a neighbouring key
LookupNeighbour(entries, pronunciation) ==
    IF pronunciation \in DOMAIN entries THEN entries[pronunciation]
    ELSE IF DOMAIN entries # {} THEN entries[CHOOSE k \in DOMAIN entries : TRUE]
    ELSE <<>>

\* Dictionary::Lookup
Lookup(entries, pronunciation) ==
    IF pronunciation \in DOMAIN entries THEN entries[pronunciation] ELSE <<>>

\* m_entries[pronunciation].push_back(entry)
AddEntry(entries, pronunciation, entry) ==
    [k \in DOMAIN entries \cup {pronunciation} |->
        IF k = pronunciation THEN Append(Lookup(entries, pronunciation), entry)
        ELSE entries[k]]

\* A file of the file system: absent, or its decoded text.
NoFile == [exists |-> FALSE, content |-> ""]
File(text) == [exists |-> TRUE, content |-> text]

\* the inner while loop of LoadFromFile: the entry objects of one key
RECURSIVE LoadEntriesLoop(_, _, _, _)
LoadEntriesLoop(content, pos, pronKey, entries) ==
    IF pos >= Len(content) THEN [ok |-> TRUE, i |-> pos, entries |-> entries]
    ELSE
      With(ParseEntryObject(content, pos), LAMBDA e :
      IF ~e.ok THEN [ok |-> FALSE, i |-> e.i, entries |-> entries]
      ELSE
        With(AddEntry(entries, pronKey,
                      IF e.out.pronunciation = ""
                      THEN [e.out EXCEPT !.pronunciation = pronKey]
                      ELSE e.out), LAMBDA added :
        With(SkipWs(content, e.i), LAMBDA j :
          IF j < Len(content) /\ CharAt(content, j) = ","
          THEN LoadEntriesLoop(content, j + 1, pronKey, added)
          ELSE [ok |-> TRUE, i |-> j, entries |-> added])))

\* the outer while loop of LoadFromFile: the keys of the "entries" object.
\* A return inside the loop leaves what was stored so far in m_entries.
RECURSIVE LoadKeysLoop(_, _, _)
LoadKeysLoop(content, pos0, entries) ==
    IF pos0 >= Len(content) THEN [ok |-> entries # EmptyMap, entries |-> entries]
    ELSE
      With(SkipWs(content, pos0), LAMBDA pos :
      IF pos >= Len(content) THEN [ok |-> FALSE, entries |-> entries]
      ELSE IF CharAt(content, pos) = "}" THEN [ok |-> entries # EmptyMap, entries |-> entries]
      ELSE With(ParseString(content, pos), LAMBDA pronKey :
        IF ~pronKey.ok THEN [ok |-> FALSE, entries |-> entries]
        ELSE With(Consume(content, pronKey.i, ":"), LAMBDA colon :
          IF ~colon.ok THEN [ok |-> FALSE, entries |-> entries]
          ELSE With(Consume(content, colon.i, "["), LAMBDA open :
            IF ~open.ok THEN [ok |-> FALSE, entries |-> entries]
            ELSE With(SkipWs(content, open.i), LAMBDA first :
              With(IF first < Len(content) /\ CharAt(content, first) # "]"
                   THEN LoadEntriesLoop(content, first, pronKey.out, entries)
                   ELSE [ok |-> TRUE, i |-> first, entries |-> entries], LAMBDA body :
                IF ~body.ok THEN [ok |-> FALSE, entries |-> body.entries]
                ELSE With(Consume(content, body.i, "]"), LAMBDA close :
                  IF ~close.ok THEN [ok |-> FALSE, entries |-> body.entries]
                  ELSE LoadKeysLoop(content, SkipComma(content, close.i), body.entries))))))))

\* Dictionary::LoadFromFile: the returned bool and m_entries after the call.
\* m_entries.clear() comes first, so the result does not depend on the
\* entries held before.
LoadFromFile(file) ==
    IF ~file.exists THEN [ok |-> FALSE, entries |-> EmptyMap]
    ELSE
      With(file.content, LAMBDA content :
      With(Find(content, "\"entries\"", 0), LAMBDA pos :
        IF pos < 0 THEN [ok |-> FALSE, entries |-> EmptyMap]
        ELSE With(Find(content, ":", pos), LAMBDA colon :
          IF colon < 0 THEN [ok |-> FALSE, entries |-> EmptyMap]
          ELSE With(Consume(content, colon + 1, "{"), LAMBDA open :
            IF ~open.ok THEN [ok |-> FALSE, entries |-> EmptyMap]
            ELSE LoadKeysLoop(content, open.i, EmptyMap)))))

\* number of entries held, over all keys
RECURSIVE SumLen(_, _)
SumLen(entries, keys) ==
    IF keys = {} THEN 0
    ELSE LET k == CHOOSE k \in keys : TRUE IN
         Len(entries[k]) + SumLen(entries, keys \ {k})
EntryCount(entries) == SumLen(entries, DOMAIN entries)

---------------------------------------------------------------------------
(* std::sort and std::unique                                               *)

\* std::sort leaves the order of equivalent elements unspecified: a call
\* resolves ties either in their original order or in the opposite one.
TieOrders == {"keep", "reverse"}

\* seq sorted by the strict order Gt (greater first)
SortBy(seq, Gt(_, _), tie) ==
    LET n == Len(seq)
        Tied(i, j) == ~Gt(seq[i], seq[j]) /\ ~Gt(seq[j], seq[i])
        Before(j, i) == \/ Gt(seq[j], seq[i])
                        \/ Tied(i, j) /\ (IF tie = "keep" THEN j < i ELSE j > i)
    IN  With([i \in 1..n |-> 1 + Cardinality({j \in 1..n : j # i /\ Before(j, i)})],
             LAMBDA rank : [p \in 1..n |-> seq[CHOOSE i \in 1..n : rank[i] = p]])

\* std::unique with the predicate a.word == b.word: of every run of
\* consecutive entries with the same word only the first is kept
UniqueByWord(seq) ==
    LET Kept(i) == i = 1 \/ seq[i].word # seq[i - 1].word
        idx == {i \in 1..Len(seq) : Kept(i)}
        Nth(p) == CHOOSE i \in idx : Cardinality({j \in idx : j < i}) = p - 1
    IN  [p \in 1..Cardinality(idx) |-> seq[Nth(p)]]

---------------------------------------------------------------------------
(* PinyinParser (pinyin_parser.cpp)                                        *)

\* candidates.resize(20)
MaxCandidates == 20

\* the comparator with the order reversed
FrequencyLess(a, b) == U32Less(a.frequency, b.frequency)

FrequencyGreater(a, b) == U32Less(b.frequency, a.frequency)

\* the combined entry with std::max in the place of std::min
CombinedEntryMaxFrequency(leftEntry, rightEntry) ==
    [word |-> leftEntry.word \o rightEntry.word,
     frequency |-> IF U32Less(leftEntry.frequency, rightEntry.frequency)
                   THEN rightEntry.frequency ELSE leftEntry.frequency,
     pronunciation |-> leftEntry.pronunciation \o " " \o rightEntry.pronunciation,
     tags |-> <<"combined">>]

CombinedEntry(leftEntry, rightEntry) ==
    [word |-> leftEntry.word \o rightEntry.word,
     frequency |-> U32Min(leftEntry.frequency, rightEntry.frequency),
     pronunciation |-> leftEntry.pronunciation \o " " \o rightEntry.pronunciation,
     tags |-> <<"combined">>]

\* the two nested for loops over leftEntries and rightEntries
CrossProduct(leftEntries, rightEntries) ==
    LET m == Len(rightEntries) IN
    [k \in 1..(Len(leftEntries) * m) |->
        CombinedEntry(leftEntries[((k - 1) \div m) + 1], rightEntries[((k - 1) % m) + 1])]

\* the for loop over the split points i .. length - 1
RECURSIVE SplitCandidates(_, _, _)
SplitCandidates(entries, pinyinSequence, i) ==
    IF i >= Len(pinyinSequence) THEN <<>>
    ELSE
      LET leftEntries == Lookup(entries, Substr(pinyinSequence, 0, i))
          rightEntries == Lookup(entries, SubstrFrom(pinyinSequence, i))
      IN  CrossProduct(leftEntries, rightEntries)
            \o SplitCandidates(entries, pinyinSequence, i + 1)

\* the candidates before sorting: the exact entries, else the two-way splits
CollectCandidates(entries, pinyinSequence) ==
    LET exact == Lookup(entries, pinyinSequence) IN
    IF exact = <<>> /\ Len(pinyinSequence) > 1
    THEN SplitCandidates(entries, pinyinSequence, 1)
    ELSE exact

\* the candidates without the resize
TruncateNever(seq, n) == seq

Truncate(seq, n) == IF Len(seq) > n THEN SubSeq(seq, 1, n) ELSE seq

GenerateCandidates(entries, pinyinSequence, tie) ==
    Truncate(
        UniqueByWord(
            SortBy(CollectCandidates(entries, pinyinSequence), FrequencyGreater, tie)),
        MaxCandidates)

\* the ParseResult built from the candidates
ToParseResult(candidates) ==
    [candidates |-> [i \in 1..Len(candidates) |-> candidates[i].word],
     frequencies |-> [i \in 1..Len(candidates) |-> candidates[i].frequency]]

EmptyResult == [candidates |-> <<>>, frequencies |-> <<>>]

\* ParseContinuousPinyin without the cache lookup: every call generates the
\* candidates anew and stores them
ParseContinuousPinyinUncached(cache, entries, pinyinSequence, tie) ==
    LET result == ToParseResult(GenerateCandidates(entries, pinyinSequence, tie)) IN
    [result |-> result,
     cache |-> [k \in DOMAIN cache \cup {pinyinSequence} |->
                   IF k = pinyinSequence THEN result ELSE cache[k]]]

\* PinyinParser::ParseContinuousPinyin: the returned ParseResult and m_cache
\* after the call
ParseContinuousPinyin(cache, entries, pinyinSequence, tie) ==
    IF pinyinSequence \in DOMAIN cache
    THEN [result |-> cache[pinyinSequence], cache |-> cache]
    ELSE
      LET result == ToParseResult(GenerateCandidates(entries, pinyinSequence, tie)) IN
      [result |-> result,
       cache |-> [k \in DOMAIN cache \cup {pinyinSequence} |->
                     IF k = pinyinSequence THEN result ELSE cache[k]]]

---------------------------------------------------------------------------
(* State                                                                   *)

VARIABLES
    m_entries,  \* Dictionary::m_entries
    m_cache,    \* PinyinParser::m_cache, over the dictionary above
    ret,        \* the last call: its name, its argument, what it returned
    files,      \* the dictionary files present at the candidate locations
    engine,     \* the ImeEngine members
    bopomofo,   \* a BopomofoScheme: its dictionary and m_dictionaryLoaded
    manager,    \* a CandidateManager over the parser above
    factoryScheme \* the InputScheme last made by SchemeFactory::CreateScheme

parserVars == <<m_entries, m_cache>>
engineVars == <<files, engine, bopomofo, manager, factoryScheme>>
vars == <<m_entries, m_cache, ret, files, engine, bopomofo, manager, factoryScheme>>

Return(op, input, ok, result) ==
    [op |-> op, input |-> input, ok |-> ok, result |-> result]

---------------------------------------------------------------------------
(* Dictionary files used as inputs                                         *)

\* a well-formed dictionary: "ni" -> N (500), "hao" -> H (500), no "nihao"
DictDoc == "{\"version\":\"1\",\"entries\":{\"ni\":[{\"word\":\"N\",\"frequency\":500,\"pronunciation\":\"ni\",\"tags\":[\"c\"],\"x\":1}],\"hao\":[{\"word\":\"H\",\"frequency\":500}]}}"

\* "a" holds the word X twice, at frequencies 3 and 1, around Y at 2;
\* "b" and "c" split "bc" into PQR twice, at frequencies 5 and 4
DupDoc == "{\"entries\":{\"a\":[{\"word\":\"X\",\"frequency\":3},{\"word\":\"Y\",\"frequency\":2},{\"word\":\"X\",\"frequency\":1}],\"b\":[{\"word\":\"P\",\"frequency\":5},{\"word\":\"PQ\",\"frequency\":4}],\"c\":[{\"word\":\"QR\",\"frequency\":5},{\"word\":\"R\",\"frequency\":4}]}}"

\* "x" and "y" hold five entries each: "xy" has 25 two-way combinations
BigDoc == "{\"entries\":{\"x\":[{\"word\":\"A\",\"frequency\":10},{\"word\":\"B\",\"frequency\":20},{\"word\":\"C\",\"frequency\":30},{\"word\":\"D\",\"frequency\":40},{\"word\":\"E\",\"frequency\":50}],\"y\":[{\"word\":\"F\",\"frequency\":15},{\"word\":\"G\",\"frequency\":25},{\"word\":\"H\",\"frequency\":35},{\"word\":\"I\",\"frequency\":45},{\"word\":\"J\",\"frequency\":55}]}}"

Prefixes(text) == {SubSeq(text, 1, n) : n \in 0..Len(text)}

\* what LoadFromFile is called on: no file, every truncation of DictDoc
\* (the whole of it included), and the two other dictionaries
LoadInputs ==
    {NoFile} \cup {File(text) : text \in Prefixes(DictDoc) \cup {DupDoc, BigDoc}}

FileKind(file) ==
    IF ~file.exists THEN "absent"
    ELSE IF file.content \in {DictDoc, DupDoc, BigDoc} THEN "complete"
    ELSE "truncated"

\* what ParseContinuousPinyin is called on
PinyinInputs == {"nihao", "a", "bc", "xy"}

\* what AddEntry is called with
AddInputs ==
    {<<"nihao", DictEntry("Z", 900, "ni hao", <<>>)>>,
     <<"ni", DictEntry("M", 300, "ni", <<>>)>>}

\* AddEntry is called on a key while it holds fewer entries than this
MaxPerKey == 2

---------------------------------------------------------------------------
(* A Dictionary and a PinyinParser over it, called directly                *)

\* ImeEngine after construction: no dictionary, parser or converter, no
\* schemes
NewEngine ==
    [m_dictionary |-> FALSE, m_pinyinParser |-> FALSE, m_converter |-> FALSE,
     m_schemes |-> {}, m_aiSelectionEnabled |-> FALSE,
     m_defaultScheme |-> "pinyin", m_charset |-> "Traditional",
     fault |-> "none", crashed |-> FALSE]

NewBopomofo ==
    [m_dictionary |-> FALSE, entries |-> EmptyMap, m_dictionaryLoaded |-> FALSE,
     m_userWords |-> EmptyMap]

\* no InputScheme was asked of the SchemeFactory yet
NoScheme == [kind |-> "none", m_parser |-> FALSE, m_userWords |-> EmptyMap]

\* CandidateManager after construction: nothing selected, no preferences;
\* boosts holds the exact sums of the boosts given by the AddUserPreference
\* calls made on it, and calls their number
NewManager ==
    [m_selectedCandidate |-> "", m_userPreferences |-> EmptyMap,
     boosts |-> EmptyMap, calls |-> 0, fault |-> "none"]

\* an empty Dictionary and a PinyinParser over it; no engine is running and
\* no file system is consulted
InitParser ==
    /\ m_entries = EmptyMap
    /\ m_cache = EmptyMap
    /\ ret = Return("new", "", TRUE, EmptyResult)
    /\ files = [dictDir |-> FALSE, exeDir |-> FALSE,
                pinyin |-> [l \in 1..7 |-> NoFile], bopomofo |-> [l \in 1..7 |-> NoFile]]
    /\ engine = NewEngine
    /\ bopomofo = NewBopomofo
    /\ manager = NewManager
    /\ factoryScheme = NoScheme

CallAddEntry(pronunciation, entry) ==
    /\ Len(Lookup(m_entries, pronunciation)) < MaxPerKey
    /\ m_entries' = AddEntry(m_entries, pronunciation, entry)
    /\ ret' = Return("AddEntry", pronunciation, TRUE, EmptyResult)
    /\ UNCHANGED <<m_cache, engineVars>>

\* LoadFromFile on each of its inputs, computed once: the kind of file it
\* was called on, the returned bool and m_entries after the call
LoadOutcomes ==
    {[kind |-> FileKind(file), ok |-> LoadFromFile(file).ok,
      entries |-> LoadFromFile(file).entries] : file \in LoadInputs}

\* Dictionary::LoadFromFile, called on a file with the outcome load
CallLoadFromFile(load) ==
    /\ m_entries' = load.entries
    /\ ret' = Return("LoadFromFile", load.kind, load.ok, EmptyResult)
    /\ UNCHANGED <<m_cache, engineVars>>

CallParseContinuousPinyin(pinyinSequence, tie) ==
    LET r == ParseContinuousPinyin(m_cache, m_entries, pinyinSequence, tie) IN
    /\ m_cache' = r.cache
    /\ ret' = Return("ParseContinuousPinyin", pinyinSequence, TRUE, r.result)
    /\ UNCHANGED <<m_entries, engineVars>>

\* PinyinParser::ClearCache
CallClearCache ==
    /\ m_cache' = EmptyMap
    /\ ret' = Return("ClearCache", "", TRUE, EmptyResult)
    /\ UNCHANGED <<m_entries, engineVars>>

NextParser ==
    \/ \E a \in AddInputs : CallAddEntry(a[1], a[2])
    \/ \E load \in LoadOutcomes : CallLoadFromFile(load)
    \/ \E s \in PinyinInputs, tie \in TieOrders : CallParseContinuousPinyin(s, tie)
    \/ CallClearCache

---------------------------------------------------------------------------
(* Dictionary file resolution (ime_engine.cpp and bopomofo_scheme.cpp).    *)
(* The candidate locations, in the order both files try them:              *)
(*   1 <MAIDOS_IME_DICT_DIR>\<name>     2 <MAIDOS_IME_DICT_DIR>\dicts\<name>*)
(*   3 <exe dir>\<name>   4 <exe dir>\dicts\<name>                         *)
(*   5 <exe dir>\..\dicts\<name>   6 src\dicts\<name>   7 dicts\<name>     *)
(* files.dictDir and files.exeDir say whether GetEnvVarW and GetExeDirW    *)
(* return a non-empty directory; files.pinyin and files.bopomofo give the  *)
(* file at each location for pinyin.dict.json and bopomofo.dict.json.      *)

Locations == 1..7
EnvLocations == {1, 2}
ExeLocations == {3, 4, 5}

\* FileExistsW
FileExistsW(file) == file.exists

\* the locations that are tried at all, in order
Tried(fs) ==
    SelectSeq(<<1, 2, 3, 4, 5, 6, 7>>,
              LAMBDA l : /\ l \in EnvLocations => fs.dictDir
                         /\ l \in ExeLocations => fs.exeDir)

\* first element of seq satisfying Test, 0 when none
FirstThat(seq, Test(_)) ==
    LET idx == {i \in 1..Len(seq) : Test(seq[i])} IN
    IF idx = {} THEN 0
    ELSE seq[CHOOSE i \in idx : \A j \in idx : i <= j]

\* ResolveDictPath: the first location whose file exists, 0 for L""
ResolveDictPath(fs, byLocation) ==
    FirstThat(Tried(fs), LAMBDA l : FileExistsW(byLocation[l]))

---------------------------------------------------------------------------
(* ImeEngine (ime_engine.cpp)                                              *)

\* the entries Initialize adds when no dictionary was loaded
FallbackEntries ==
    << <<"ni hao", DictEntry("NiHao", 1000, "ni hao", <<"greeting", "common">>)>>,
       <<"shi jie", DictEntry("ShiJie", 800, "shi jie", <<"noun", "common">>)>>,
       <<"xie xie", DictEntry("XieXie", 950, "xie xie", <<"greeting", "common">>)>>,
       <<"jin tian", DictEntry("JinTian", 900, "jin tian", <<"time", "common">>)>>,
       <<"ming tian", DictEntry("MingTian", 700, "ming tian", <<"time", "common">>)>>,
       <<"ai", DictEntry("Ai", 600, "ai", <<"emotion", "common">>)>> >>

RECURSIVE AddAll(_, _)
AddAll(entries, pairs) ==
    IF pairs = <<>> THEN entries
    ELSE AddAll(AddEntry(entries, Head(pairs)[1], Head(pairs)[2]), Tail(pairs))

\* Initialize without the fallback entries
InitializeDictionaryNoFallback(fs) ==
    LET dictPath == ResolveDictPath(fs, fs.pinyin) IN
    IF dictPath = 0 THEN EmptyMap ELSE LoadFromFile(fs.pinyin[dictPath]).entries

\* the dictionary part of ImeEngine::Initialize: m_entries of the new
\* Dictionary after the load and, if the load failed, the fallback entries
InitializeDictionary(fs) ==
    LET dictPath == ResolveDictPath(fs, fs.pinyin)
        load == IF dictPath = 0 THEN [ok |-> FALSE, entries |-> EmptyMap]
                ELSE LoadFromFile(fs.pinyin[dictPath])
    IN  IF dictPath = 0 \/ ~load.ok
        THEN AddAll(load.entries, FallbackEntries)
        ELSE load.entries

Candidate(character, frequency, tags) ==
    [character |-> character, frequency |-> frequency, tags |-> tags]

CandidateGreater(a, b) == a.frequency > b.frequency

\* PinyinScheme::GetCandidates on a parse result
SchemeCandidates(result) ==
    [i \in 1..(IF Len(result.candidates) < Len(result.frequencies)
               THEN Len(result.candidates) ELSE Len(result.frequencies)) |->
        Candidate(result.candidates[i], U32ToInt(result.frequencies[i]), <<>>)]

\* CharsetConverter: m_s2t and m_t2s as set by InitializeMaps
S2T == [c \in {"A", "B"} |-> c]
T2S == [c \in {"A", "B"} |-> c]

MapChars(text, table) ==
    LET out[i \in 0..Len(text)] ==
            IF i = 0 THEN ""
            ELSE out[i - 1] \o (IF CharAt(text, i - 1) \in DOMAIN table
                                THEN table[CharAt(text, i - 1)]
                                ELSE CharAt(text, i - 1))
    IN  out[Len(text)]

\* the replacement loop of Convert, dropping the characters the table lacks
MapCharsDropping(text, table) ==
    LET out[i \in 0..Len(text)] ==
            IF i = 0 THEN ""
            ELSE out[i - 1] \o (IF CharAt(text, i - 1) \in DOMAIN table
                                THEN table[CharAt(text, i - 1)]
                                ELSE "")
    IN  out[Len(text)]

ConvertDropping(text, from, to) ==
    IF from = to THEN text
    ELSE IF from = "Simplified" /\ to = "Traditional" THEN MapCharsDropping(text, S2T)
    ELSE IF from = "Traditional" /\ to = "Simplified" THEN MapCharsDropping(text, T2S)
    ELSE text

\* CharsetConverter::Convert
Convert(text, from, to) ==
    IF from = to THEN text
    ELSE IF from = "Simplified" /\ to = "Traditional" THEN MapChars(text, S2T)
    ELSE IF from = "Traditional" /\ to = "Simplified" THEN MapChars(text, T2S)
    ELSE text

\* ImeEngine::GetCandidatesFromScheme.  fault "null" says that the call
\* dereferenced the null m_pinyinParser.
GetCandidatesFromScheme(e, cache, entries, input, schemeName, tie) ==
    IF schemeName \in e.m_schemes THEN
      IF schemeName = "pinyin" THEN
        LET r == ParseContinuousPinyin(cache, entries, input, tie) IN
        [fault |-> "none", candidates |-> SchemeCandidates(r.result), cache |-> r.cache]
      ELSE [fault |-> "none", candidates |-> <<>>, cache |-> cache]
    ELSE IF schemeName = "pinyin" THEN
      IF e.m_pinyinParser THEN
        LET r == ParseContinuousPinyin(cache, entries, input, tie) IN
        [fault |-> "none", candidates |-> SchemeCandidates(r.result), cache |-> r.cache]
      ELSE [fault |-> "null", candidates |-> <<>>, cache |-> cache]
    ELSE [fault |-> "none", candidates |-> <<>>, cache |-> cache]

\* ImeEngine::ProcessInput
ProcessInput(e, cache, entries, input, tie, tie2) ==
    LET r == GetCandidatesFromScheme(e, cache, entries, input, e.m_defaultScheme, tie) IN
    IF r.fault = "none" /\ e.m_aiSelectionEnabled /\ r.candidates # <<>>
    THEN [r EXCEPT !.candidates = SortBy(r.candidates, CandidateGreater, tie2)]
    ELSE r

---------------------------------------------------------------------------
(* BopomofoScheme: the dictionary load (bopomofo_scheme.cpp)               *)

\* the for loop over the candidate paths: every LoadFromFile starts from an
\* empty m_entries; after the last failure m_entries is what that load left
RECURSIVE LoadFirstParsed(_, _, _)
LoadFirstParsed(locations, byLocation, entries) ==
    IF locations = <<>> THEN [ok |-> FALSE, entries |-> entries]
    ELSE IF ~FileExistsW(byLocation[Head(locations)])
    THEN LoadFirstParsed(Tail(locations), byLocation, entries)
    ELSE
      LET r == LoadFromFile(byLocation[Head(locations)]) IN
      IF r.ok THEN r
      ELSE LoadFirstParsed(Tail(locations), byLocation, r.entries)

\* "b a" holds eleven words at frequencies 11 down to 1; "ba" holds X;
\* "m a ^" holds H at 3000000000 and h at 5; "m a^" holds Y
BopomofoDoc == "{\"entries\":{\"b a\":[{\"word\":\"A\",\"frequency\":11},{\"word\":\"B\",\"frequency\":10},{\"word\":\"C\",\"frequency\":9},{\"word\":\"D\",\"frequency\":8},{\"word\":\"E\",\"frequency\":7},{\"word\":\"F\",\"frequency\":6},{\"word\":\"G\",\"frequency\":5},{\"word\":\"I\",\"frequency\":4},{\"word\":\"J\",\"frequency\":3},{\"word\":\"K\",\"frequency\":2},{\"word\":\"L\",\"frequency\":1}],\"ba\":[{\"word\":\"X\",\"frequency\":1}],\"m a ^\":[{\"word\":\"H\",\"frequency\":3000000000},{\"word\":\"h\",\"frequency\":5}],\"m a^\":[{\"word\":\"Y\",\"frequency\":2}]}}"

\* the same file cut off inside its second key
BopomofoPartialDoc == "{\"entries\":{\"b a\":[{\"word\":\"A\",\"frequency\":11}],\"ba\":[{\"wor"

\* dicts/bopomofo.dict.json, the last location tried, is absent, whole or
\* cut off; no directory is configured
SchemeFileSystems ==
    {[dictDir |-> FALSE, exeDir |-> FALSE, pinyin |-> [l \in Locations |-> NoFile],
      bopomofo |-> [l \in Locations |-> IF l = 7 THEN file ELSE NoFile]] :
        file \in {NoFile, File(BopomofoDoc), File(BopomofoPartialDoc)}}

\* the for loop of EnsureDictionaryLoaded on each of these file systems,
\* computed once
BopomofoLoads ==
    [fs \in SchemeFileSystems |-> LoadFirstParsed(Tried(fs), fs.bopomofo, EmptyMap)]

\* BopomofoScheme::EnsureDictionaryLoaded: the returned bool and the scheme
\* after the call
EnsureDictionaryLoaded(b, fs) ==
    IF b.m_dictionaryLoaded /\ b.m_dictionary THEN [ok |-> TRUE, scheme |-> b]
    ELSE
      LET r == IF fs \in SchemeFileSystems THEN BopomofoLoads[fs]
               ELSE LoadFirstParsed(Tried(fs), fs.bopomofo, EmptyMap) IN
      [ok |-> r.ok,
       scheme |-> [b EXCEPT !.m_dictionary = TRUE, !.entries = r.entries,
                            !.m_dictionaryLoaded = r.ok]]

---------------------------------------------------------------------------
(* The file systems the engine is started in                               *)

\* a dictionary file cut off inside its second key: the load fails after
\* "ni hao" -> W (7) was stored
PartialDoc == "{\"entries\":{\"ni hao\":[{\"word\":\"W\",\"frequency\":7}],\"hao\":[{\"word\":"

FileDocs == {DictDoc, PartialDoc}

\* at most this many dictionary files exist
MaxFiles == 2

NoFiles == [l \in Locations |-> NoFile]

\* the assignments of documents to at most MaxFiles of the locations that
\* the directories make reachable
Placements(dictDir, exeDir) ==
    LET reachable == {l \in Locations : /\ l \in EnvLocations => dictDir
                                        /\ l \in ExeLocations => exeDir}
        chosen == {S \in SUBSET reachable : Cardinality(S) <= MaxFiles}
    IN  UNION {{[l \in Locations |-> IF l \in S THEN File(a[l]) ELSE NoFile] :
                  a \in [S -> FileDocs]} : S \in chosen}

---------------------------------------------------------------------------
(* An ImeEngine                                                            *)

EngineInputs == {"nihao", "ni hao"}
SchemeNames == {"pinyin", "wubi"}
Charsets == {"Traditional", "Simplified"}

\* what a call that dereferenced a null pointer may hand back, if the
\* process survives it
GarbageCandidates == {<<>>, <<Candidate("?", -1, <<>>)>>}

\* the file systems an engine is started in: pinyin.dict.json at up to
\* MaxFiles locations, no bopomofo.dict.json
FileSystems ==
    UNION {{[dictDir |-> dictDir, exeDir |-> exeDir, pinyin |-> pinyin, bopomofo |-> NoFiles] :
              pinyin \in Placements(dictDir, exeDir)} : dictDir \in BOOLEAN, exeDir \in BOOLEAN}

\* InitializeDictionary on each of them, computed once
InitialEntries == [fs \in FileSystems |-> InitializeDictionary(fs)]

Init ==
    /\ m_entries = EmptyMap
    /\ m_cache = EmptyMap
    /\ ret = Return("new", "", TRUE, EmptyResult)
    /\ engine = NewEngine
    /\ bopomofo = NewBopomofo
    /\ manager = NewManager
    /\ factoryScheme = NoScheme
    /\ files \in FileSystems

\* ImeEngine::Initialize
CallInitialize ==
    /\ ~engine.crashed
    /\ m_entries' = InitialEntries[files]
    /\ m_cache' = EmptyMap
    /\ engine' = [engine EXCEPT !.m_dictionary = TRUE, !.m_pinyinParser = TRUE,
                                !.m_converter = TRUE,
                                !.m_schemes = {"pinyin", "bopomofo"},
                                !.m_aiSelectionEnabled = TRUE,
                                !.m_defaultScheme = "pinyin",
                                !.m_charset = "Traditional"]
    /\ ret' = Return("Initialize", "", TRUE, EmptyResult)
    /\ UNCHANGED <<files, bopomofo, manager, factoryScheme>>

\* a call that dereferenced a null member: undefined behaviour, which ends
\* the process or returns anything
NullDereference(op, input) ==
    \E crashed \in BOOLEAN, garbage \in GarbageCandidates :
        /\ engine' = [engine EXCEPT !.fault = "null", !.crashed = crashed]
        /\ ret' = Return(op, input, FALSE, garbage)
        /\ UNCHANGED <<m_entries, m_cache, files, bopomofo, manager, factoryScheme>>

CallProcessInput(input) ==
    /\ ~engine.crashed
    /\ \E tie \in TieOrders, tie2 \in TieOrders :
         LET r == ProcessInput(engine, m_cache, m_entries, input, tie, tie2) IN
         IF r.fault = "null" THEN NullDereference("ProcessInput", input)
         ELSE /\ m_cache' = r.cache
              /\ ret' = Return("ProcessInput", input, TRUE, r.candidates)
              /\ UNCHANGED <<m_entries, files, engine, bopomofo, manager, factoryScheme>>

\* ImeEngine::GetCrossCandidates
CallGetCrossCandidates(input, scheme) ==
    /\ ~engine.crashed
    /\ \E tie \in TieOrders :
         LET r == GetCandidatesFromScheme(engine, m_cache, m_entries, input, scheme, tie) IN
         IF r.fault = "null" THEN NullDereference("GetCrossCandidates", input)
         ELSE /\ m_cache' = r.cache
              /\ ret' = Return("GetCrossCandidates", input, TRUE, r.candidates)
              /\ UNCHANGED <<m_entries, files, engine, bopomofo, manager, factoryScheme>>

\* ImeEngine::ProcessCrossInput: ProcessInput, then m_converter->Convert
CallProcessCrossInput(input, charset) ==
    /\ ~engine.crashed
    /\ \E tie \in TieOrders, tie2 \in TieOrders :
         LET r == ProcessInput(engine, m_cache, m_entries, input, tie, tie2)
             text == IF r.candidates # <<>> THEN r.candidates[1].character ELSE input
         IN  IF r.fault = "null" \/ ~engine.m_converter
             THEN NullDereference("ProcessCrossInput", input)
             ELSE /\ m_cache' = r.cache
                  /\ ret' = Return("ProcessCrossInput", input, TRUE,
                                   Convert(text, engine.m_charset, charset))
                  /\ UNCHANGED <<m_entries, files, engine, bopomofo, manager, factoryScheme>>

Next ==
    \/ CallInitialize
    \/ \E input \in EngineInputs : CallProcessInput(input)
    \/ \E input \in EngineInputs, scheme \in SchemeNames : CallGetCrossCandidates(input, scheme)
    \/ \E input \in EngineInputs, charset \in Charsets : CallProcessCrossInput(input, charset)

Spec == Init /\ [][Next]_vars

---------------------------------------------------------------------------
(* A Dictionary and a PinyinParser over it: the specification              *)

SpecParser == InitParser /\ [][NextParser]_vars

---------------------------------------------------------------------------
(* A BopomofoScheme: the specification                                     *)

InitBopomofo ==
    /\ m_entries = EmptyMap
    /\ m_cache = EmptyMap
    /\ ret = Return("new", "", TRUE, EmptyResult)
    /\ engine = NewEngine
    /\ bopomofo = NewBopomofo
    /\ manager = NewManager
    /\ factoryScheme = NoScheme
    /\ \E dictDir \in BOOLEAN, exeDir \in BOOLEAN :
         \E placed \in Placements(dictDir, exeDir) :
            files = [dictDir |-> dictDir, exeDir |-> exeDir,
                     pinyin |-> NoFiles, bopomofo |-> placed]

\* BopomofoScheme::Initialize
CallBopomofoInitialize ==
    LET r == EnsureDictionaryLoaded(bopomofo, files) IN
    /\ bopomofo' = r.scheme
    /\ ret' = Return("BopomofoScheme::Initialize", "", r.ok, EmptyResult)
    /\ UNCHANGED <<m_entries, m_cache, files, engine, manager, factoryScheme>>

NextBopomofo == CallBopomofoInitialize

SpecBopomofo == InitBopomofo /\ [][NextBopomofo]_vars

---------------------------------------------------------------------------
(* CandidateManager (candidate.cpp)                                        *)

\* the range of int, the type of a preference weight
IntMax == 2147483647
IntMin == -IntMax - 1

\* a + b leaves the range of int: signed overflow, undefined behaviour
AddOverflows(a, b) ==
    \/ b > 0 /\ a > IntMax - b
    \/ b < 0 /\ a < IntMin - b

\* a + b reduced modulo 2^32 into the range of int, for an overflowing sum
WrappedSum(a, b) ==
    IF b > 0 THEN (a - IntMax - 1) + (b - IntMax - 1)
    ELSE (a + IntMax + 1) + (b + IntMax + 1)

\* what weight += preferenceBoost may leave in the weight: the sum, or for
\* an overflowing sum the wrapped value or any other int (the two ends of
\* the range stand for them)
SumOutcomes(a, b) ==
    IF AddOverflows(a, b) THEN {WrappedSum(a, b), IntMin, IntMax} ELSE {a + b}

\* an integer of any size, as hi * 2^16 + lo with 0 <= lo < 2^16
Exact(n) == <<n \div Half, n % Half>>
ExactPlus(x, n) ==
    <<x[1] + (n \div Half) + ((x[2] + (n % Half)) \div Half), (x[2] + (n % Half)) % Half>>

\* m_userPreferences[pinyin][candidate], 0 where nothing is recorded
WeightOf(preferences, pinyin, candidate) ==
    IF pinyin \in DOMAIN preferences /\ candidate \in DOMAIN preferences[pinyin]
    THEN preferences[pinyin][candidate] ELSE 0

\* the same lookup in the history of the boosts, summed without a width
TotalOf(boosts, pinyin, candidate) ==
    IF pinyin \in DOMAIN boosts /\ candidate \in DOMAIN boosts[pinyin]
    THEN boosts[pinyin][candidate] ELSE Exact(0)

\* map[pinyin][candidate] = value, creating both levels where absent
Store(map, pinyin, candidate, value) ==
    [k \in DOMAIN map \cup {pinyin} |->
        IF k # pinyin THEN map[k]
        ELSE [c \in (IF pinyin \in DOMAIN map THEN DOMAIN map[pinyin] ELSE {})
                    \cup {candidate} |->
                IF c = candidate THEN value ELSE map[pinyin][c]]]

\* CandidateManager::GetCandidates: the returned words and m_cache after
GetCandidates(cache, entries, input, tie) ==
    With(ParseContinuousPinyin(cache, entries, input, tie), LAMBDA r :
        [candidates |-> r.result.candidates, cache |-> r.cache])

LengthLess(a, b) == Len(a) < Len(b)
LengthGreater(a, b) == Len(a) > Len(b)

\* the context length from which longer candidates come first
ContextThreshold == 5
\* the size GetSmartCandidates cuts its result to
MaxSmartCandidates == 10

\* GetSmartCandidates with the two orders exchanged
GetSmartCandidatesSwapped(cache, entries, input, context, tie, tie2) ==
    With(GetCandidates(cache, entries, input, tie), LAMBDA base :
        IF context = "" \/ Len(base.candidates) <= 1 THEN base
        ELSE [candidates |->
                Truncate(IF context = "" \/ Len(context) < ContextThreshold
                         THEN SortBy(base.candidates, LengthGreater, tie2)
                         ELSE SortBy(base.candidates, LengthLess, tie2),
                         MaxSmartCandidates),
              cache |-> base.cache])

\* CandidateManager::GetSmartCandidates
GetSmartCandidates(cache, entries, input, context, tie, tie2) ==
    With(GetCandidates(cache, entries, input, tie), LAMBDA base :
        IF context = "" \/ Len(base.candidates) <= 1 THEN base
        ELSE [candidates |->
                Truncate(IF context = "" \/ Len(context) < ContextThreshold
                         THEN SortBy(base.candidates, LengthLess, tie2)
                         ELSE SortBy(base.candidates, LengthGreater, tie2),
                         MaxSmartCandidates),
              cache |-> base.cache])

\* SelectCandidate without the lower bound on index
SelectCandidateUnchecked(m, index, candidates) ==
    IF index >= Len(candidates) THEN [ok |-> FALSE, manager |-> m]
    ELSE [ok |-> TRUE,
          manager |-> [m EXCEPT !.m_selectedCandidate =
                          IF index >= 0 THEN candidates[index + 1] ELSE "?"]]

\* CandidateManager::SelectCandidate: index counts from 0
SelectCandidate(m, index, candidates) ==
    IF index < 0 \/ index >= Len(candidates) THEN [ok |-> FALSE, manager |-> m]
    ELSE [ok |-> TRUE, manager |-> [m EXCEPT !.m_selectedCandidate = candidates[index + 1]]]

GetSelectedCandidate(m) == m.m_selectedCandidate

ClearSelection(m) == [m EXCEPT !.m_selectedCandidate = ""]

HasValidSelection(m) == m.m_selectedCandidate # ""

\* Reset without the call of m_parser.ClearCache
ResetKeepsCache(m, cache) == [manager |-> ClearSelection(m), cache |-> cache]

\* CandidateManager::Reset: ClearSelection, then m_parser.ClearCache; the
\* manager and the parser's m_cache after the call
Reset(m, cache) == [manager |-> ClearSelection(m), cache |-> EmptyMap]

\* CandidateManager::AddUserPreference, the weight left being outcome
AddUserPreference(m, pinyin, candidate, preferenceBoost, outcome) ==
    [m EXCEPT
        !.m_userPreferences = Store(@, pinyin, candidate, outcome),
        !.boosts = Store(@, pinyin, candidate,
                         ExactPlus(TotalOf(@, pinyin, candidate), preferenceBoost)),
        !.calls = @ + 1,
        !.fault = IF AddOverflows(WeightOf(m.m_userPreferences, pinyin, candidate),
                                  preferenceBoost)
                  THEN "overflow" ELSE @]

WeightGreater(a, b) == a[2] > b[2]

\* the part of GetSmartSuggestions after GetCandidates: the candidates in
\* the order of their weights where pinyinInput has a table
SuggestionsOf(preferences, candidates, pinyinInput, tie) ==
    IF pinyinInput \in DOMAIN preferences
    THEN With(SortBy([i \in 1..Len(candidates) |->
                         <<candidates[i], WeightOf(preferences, pinyinInput, candidates[i])>>],
                     WeightGreater, tie),
              LAMBDA weighted : [i \in 1..Len(weighted) |-> weighted[i][1]])
    ELSE candidates

\* CandidateManager::GetSmartSuggestions
GetSmartSuggestions(m, cache, entries, pinyinInput, tie, tie2) ==
    With(GetCandidates(cache, entries, pinyinInput, tie), LAMBDA base :
        [candidates |-> SuggestionsOf(m.m_userPreferences, base.candidates, pinyinInput, tie2),
         cache |-> base.cache])

---------------------------------------------------------------------------
(* A CandidateManager over a PinyinParser and its Dictionary: the          *)
(* specification                                                           *)

\* "t": A, B, C at falling frequencies; "m": twelve words of one, two and
\* three characters at falling frequencies; "u": E alone
ManagerDictionary ==
    [k \in {"t", "m", "u"} |->
        CASE k = "t" -> <<DictEntry("A", 30, "t", <<>>), DictEntry("B", 20, "t", <<>>),
                          DictEntry("C", 10, "t", <<>>)>>
          [] k = "m" -> <<DictEntry("a", 120, "m", <<>>), DictEntry("bb", 110, "m", <<>>),
                          DictEntry("ccc", 100, "m", <<>>), DictEntry("d", 90, "m", <<>>),
                          DictEntry("ee", 80, "m", <<>>), DictEntry("fff", 70, "m", <<>>),
                          DictEntry("g", 60, "m", <<>>), DictEntry("hh", 50, "m", <<>>),
                          DictEntry("iii", 40, "m", <<>>), DictEntry("j", 30, "m", <<>>),
                          DictEntry("kk", 20, "m", <<>>), DictEntry("lll", 10, "m", <<>>)>>
          [] k = "u" -> <<DictEntry("E", 5, "u", <<>>)>>]

ManagerInputs == {"t", "u"}
SmartInputs == {"t", "m", "u"}
Contexts == {"", "abc", "abcde"}
SelectIndexes == {-1, 0, 1, 2}
SelectLists == {<<"", "A">>}
PreferenceInputs == {<<"t", "C">>, <<"u", "E">>}
Boosts == {1, IntMax}
ManagerAddInputs == {<<"u", DictEntry("D", 9, "u", <<>>)>>}

\* AddUserPreference is called at most this many times
MaxBoosts == 2

InitManager ==
    /\ m_entries = ManagerDictionary
    /\ m_cache = EmptyMap
    /\ ret = Return("new", "", TRUE, <<>>)
    /\ files = [dictDir |-> FALSE, exeDir |-> FALSE,
                pinyin |-> [l \in 1..7 |-> NoFile], bopomofo |-> [l \in 1..7 |-> NoFile]]
    /\ engine = NewEngine
    /\ bopomofo = NewBopomofo
    /\ manager = NewManager
    /\ factoryScheme = NoScheme

managerRest == <<files, engine, bopomofo, factoryScheme>>

CallGetCandidates(input) ==
    \E tie \in TieOrders :
        \E r \in {GetCandidates(m_cache, m_entries, input, tie)} :
            /\ m_cache' = r.cache
            /\ ret' = Return("GetCandidates", input, TRUE, r.candidates)
            /\ UNCHANGED <<m_entries, manager, managerRest>>

CallGetSmartCandidates(input, context) ==
    \E tie \in TieOrders, tie2 \in TieOrders :
        \E r \in {GetSmartCandidates(m_cache, m_entries, input, context, tie, tie2)} :
            /\ m_cache' = r.cache
            /\ ret' = Return("GetSmartCandidates", [input |-> input, context |-> context],
                             TRUE, r.candidates)
            /\ UNCHANGED <<m_entries, manager, managerRest>>

CallSelectCandidate(index, candidates) ==
    \E r \in {SelectCandidate(manager, index, candidates)} :
        /\ manager' = r.manager
        /\ ret' = Return("SelectCandidate", [index |-> index, candidates |-> candidates],
                         r.ok, <<>>)
        /\ UNCHANGED <<m_entries, m_cache, managerRest>>

CallClearSelection ==
    /\ manager' = ClearSelection(manager)
    /\ ret' = Return("ClearSelection", "", TRUE, <<>>)
    /\ UNCHANGED <<m_entries, m_cache, managerRest>>

\* CandidateManager::Reset; the call is recorded with the selection and the
\* cache it was made on
CallReset ==
    \E r \in {Reset(manager, m_cache)} :
        /\ manager' = r.manager
        /\ m_cache' = r.cache
        /\ ret' = Return("Reset", [selected |-> GetSelectedCandidate(manager), cache |-> m_cache],
                         TRUE, <<>>)
        /\ UNCHANGED <<m_entries, managerRest>>

CallAddUserPreference(pinyin, candidate, preferenceBoost) ==
    /\ manager.calls < MaxBoosts
    /\ \E outcome \in SumOutcomes(WeightOf(manager.m_userPreferences, pinyin, candidate),
                                  preferenceBoost) :
          manager' = AddUserPreference(manager, pinyin, candidate, preferenceBoost, outcome)
    /\ ret' = Return("AddUserPreference",
                     [pinyin |-> pinyin, candidate |-> candidate, boost |-> preferenceBoost],
                     TRUE, <<>>)
    /\ UNCHANGED <<m_entries, m_cache, managerRest>>

CallGetSmartSuggestions(pinyinInput) ==
    \E tie \in TieOrders, tie2 \in TieOrders :
        \E r \in {GetSmartSuggestions(manager, m_cache, m_entries, pinyinInput, tie, tie2)} :
            /\ m_cache' = r.cache
            /\ ret' = Return("GetSmartSuggestions", pinyinInput, TRUE, r.candidates)
            /\ UNCHANGED <<m_entries, manager, managerRest>>

\* Dictionary::AddEntry on the dictionary under the parser
CallManagerAddEntry(pronunciation, entry) ==
    /\ Len(Lookup(m_entries, pronunciation)) < MaxPerKey
    /\ m_entries' = AddEntry(m_entries, pronunciation, entry)
    /\ ret' = Return("AddEntry", pronunciation, TRUE, <<>>)
    /\ UNCHANGED <<m_cache, manager, managerRest>>

NextManager ==
    \/ \E input \in ManagerInputs : CallGetCandidates(input)
    \/ \E input \in ManagerInputs, context \in Contexts : CallGetSmartCandidates(input, context)
    \/ \E index \in SelectIndexes, candidates \in SelectLists :
          CallSelectCandidate(index, candidates)
    \/ CallClearSelection
    \/ CallReset
    \/ \E p \in PreferenceInputs, boost \in Boosts : CallAddUserPreference(p[1], p[2], boost)
    \/ \E input \in ManagerInputs : CallGetSmartSuggestions(input)
    \/ \E a \in ManagerAddInputs : CallManagerAddEntry(a[1], a[2])

SpecManager == InitManager /\ [][NextManager]_vars

\* the same CandidateManager, asked for candidates only, the twelve words
\* of "m" included
NextSmart ==
    \/ \E input \in SmartInputs : CallGetCandidates(input)
    \/ \E input \in SmartInputs, context \in Contexts : CallGetSmartCandidates(input, context)
    \/ CallReset
    \/ \E a \in ManagerAddInputs : CallManagerAddEntry(a[1], a[2])

SpecSmart == InitManager /\ [][NextSmart]_vars

---------------------------------------------------------------------------
(* Properties of the PinyinParser and the Dictionary (under SpecParser)    *)

Parsed == ret.op = "ParseContinuousPinyin"

\* C1: once ParseContinuousPinyin(s) has returned R, later calls on s return
\* R until ClearCache, whatever is added to the dictionary in between: no
\* step but ClearCache changes or removes a cached entry, a call on a cached
\* sequence returns the cached result, and a call leaves what it returned
\* in the cache.
C1_CacheStable ==
    [][/\ ret'.op # "ClearCache" =>
            \A s \in DOMAIN m_cache : s \in DOMAIN m_cache' /\ m_cache'[s] = m_cache[s]
       /\ ret'.op = "ParseContinuousPinyin" =>
            /\ ret'.input \in DOMAIN m_cache => ret'.result = m_cache[ret'.input]
            /\ ret'.input \in DOMAIN m_cache'
            /\ m_cache'[ret'.input] = ret'.result]_vars

\* C1 witness: "nihao" was parsed while it had no entry, an entry was added
\* for it, and the next call still returned the combined candidate
C1_Witness ==
    /\ Parsed /\ ret.input = "nihao"
    /\ "nihao" \in DOMAIN m_entries
    /\ ret.result.candidates = <<"NH">>

\* C2: a result of ParseContinuousPinyin holds each word at most once.
C2_EachWordOnce ==
    Parsed =>
        \A i, j \in 1..Len(ret.result.candidates) :
            ret.result.candidates[i] = ret.result.candidates[j] => i = j

\* C3: LoadFromFile on a nonexistent file or on a truncated file returns
\* failure and leaves the entry count as it was before the call.
C3_FailedLoadKeepsCount ==
    [][ret'.op = "LoadFromFile" /\ ret'.input \in {"absent", "truncated"} =>
          ~ret'.ok /\ EntryCount(m_entries') = EntryCount(m_entries)]_vars

\* C6: the frequencies of a result of ParseContinuousPinyin, and of every
\* cached result, are non-increasing from first to last.
C6_NonIncreasing ==
    \A r \in {ret.result} \cup {m_cache[s] : s \in DOMAIN m_cache} :
        \A i \in 1..Len(r.frequencies), j \in 1..Len(r.frequencies) :
            i < j => ~U32Less(r.frequencies[i], r.frequencies[j])

\* C6 witness: a result with a higher frequency before a lower one
C6_Witness ==
    /\ Parsed
    /\ \E i \in 1..Len(ret.result.frequencies), j \in 1..Len(ret.result.frequencies) :
          i < j /\ U32Less(ret.result.frequencies[j], ret.result.frequencies[i])

Range(seq) == {seq[i] : i \in 1..Len(seq)}

\* word and frequency are those of an entry stored under s
IsExact(entries, s, word, frequency) ==
    \E e \in Range(Lookup(entries, s)) : e.word = word /\ e.frequency = frequency

\* word and frequency are l.word + r.word and min(l.frequency, r.frequency)
\* for an entry l of s[0:i] and an entry r of s[i:], at one split point i
IsCombined(entries, s, word, frequency) ==
    \E i \in 1..(Len(s) - 1) :
        \E l \in Range(Lookup(entries, SubSeq(s, 1, i))),
           r \in Range(Lookup(entries, SubSeq(s, i + 1, Len(s)))) :
            /\ word = l.word \o r.word
            /\ frequency = IF U32Less(r.frequency, l.frequency)
                           THEN r.frequency ELSE l.frequency

\* what C7 says of the result of ParseContinuousPinyin(s) over entries
SegmentationOf(entries, s, result) ==
    LET n == Len(result.candidates)
        Has(word, frequency) ==
            \E k \in 1..n : /\ result.candidates[k] = word
                            /\ k <= Len(result.frequencies)
                            /\ result.frequencies[k] = frequency
    IN  /\ Lookup(entries, s) = <<>> /\ Len(s) > 1 =>
            \A k \in 1..n :
                IsCombined(entries, s, result.candidates[k], result.frequencies[k])
        /\ Lookup(entries, s) # <<>> =>
            \A k \in 1..n :
                IsExact(entries, s, result.candidates[k], result.frequencies[k])
        /\ (/\ Lookup(entries, s) = <<>>
            /\ \A i \in 1..(Len(s) - 1) :
                   \/ Lookup(entries, SubSeq(s, 1, i)) = <<>>
                   \/ Lookup(entries, SubSeq(s, i + 1, Len(s))) = <<>>) => n = 0
        /\ (/\ s = "nihao" /\ Lookup(entries, "nihao") = <<>>
            /\ IsExact(entries, "ni", "N", <<0, 500>>)
            /\ IsExact(entries, "hao", "H", <<0, 500>>)) => Has("NH", <<0, 500>>)

\* C7: the result of ParseContinuousPinyin(s) is the two-way segmentation
\* of s over the dictionary: combined candidates only, each from one split,
\* when s has no entry; none when s has an entry; nothing when nothing
\* matches; "NH" at 500 for "nihao" over ni -> N (500), hao -> H (500).
C7_Segmentation ==
    Parsed => SegmentationOf(m_entries, ret.input, ret.result)

\* C7, amended: the same of every call that is not served from the cache.
C7_FreshSegmentation ==
    [][ret'.op = "ParseContinuousPinyin" /\ ret'.input \notin DOMAIN m_cache =>
          SegmentationOf(m_entries, ret'.input, ret'.result)]_vars

\* C7 witness: "nihao" has no entry, "ni" and "hao" have, and the call
\* returned the combined candidate
C7_Witness ==
    /\ Parsed /\ ret.input = "nihao"
    /\ Lookup(m_entries, "nihao") = <<>>
    /\ IsExact(m_entries, "ni", "N", <<0, 500>>)
    /\ IsExact(m_entries, "hao", "H", <<0, 500>>)
    /\ \E k \in 1..Len(ret.result.candidates) :
          ret.result.candidates[k] = "NH" /\ ret.result.frequencies[k] = <<0, 500>>

\* C8: a result of ParseContinuousPinyin, fresh or cached, has at most 20
\* candidates and as many frequencies, frequencies[i] being the frequency
\* of the candidate whose word is candidates[i].
C8_BoundedAligned ==
    [][ret'.op = "ParseContinuousPinyin" =>
          /\ Len(ret'.result.candidates) <= 20
          /\ Len(ret'.result.frequencies) = Len(ret'.result.candidates)
          /\ ret'.input \notin DOMAIN m_cache =>
                \E pool \in {Range(CollectCandidates(m_entries, ret'.input))} :
                    \A k \in 1..Len(ret'.result.candidates) :
                        \E e \in pool : /\ e.word = ret'.result.candidates[k]
                                        /\ e.frequency = ret'.result.frequencies[k]]_vars

\* C8 witness: "xy" has 25 two-way combinations and the call returned 20
C8_Witness ==
    /\ Parsed /\ ret.input = "xy"
    /\ Len(CollectCandidates(m_entries, "xy")) > 20
    /\ Len(ret.result.candidates) = 20

---------------------------------------------------------------------------
(* Properties of the ImeEngine (under Spec)                                *)

Queries == {"ProcessInput", "GetCrossCandidates", "ProcessCrossInput"}

\* C4: a query before Initialize reports a failure and does not use the
\* null dictionary, parser or converter.
C4_FailFast ==
    ret.op \in Queries /\ ~engine.m_dictionary =>
        ~ret.ok /\ engine.fault = "none"

\* the first location tried whose file exists and loads, 0 when none does
FirstParsing(fs, byLocation) ==
    FirstThat(Tried(fs),
              LAMBDA l : FileExistsW(byLocation[l]) /\ LoadFromFile(byLocation[l]).ok)

HoldsFallback(entries) ==
    \A k \in 1..Len(FallbackEntries) :
        FallbackEntries[k][2] \in Range(Lookup(entries, FallbackEntries[k][1]))

\* C5: the dictionary of an initialized engine is the one of the first
\* location, in the fixed order, whose file exists and loads; the fallback
\* entries are used only when there is no such location.
C5_FirstParsingWins ==
    engine.m_dictionary =>
        LET p == FirstParsing(files, files.pinyin) IN
        IF p # 0 THEN m_entries = LoadFromFile(files.pinyin[p]).entries
        ELSE HoldsFallback(m_entries)

\* the file systems whose dictionary file is not found or does not load
FailingFileSystems ==
    {fs \in FileSystems :
        LET dictPath == ResolveDictPath(fs, fs.pinyin) IN
        dictPath = 0 \/ ~LoadFromFile(fs.pinyin[dictPath]).ok}

\* C9: when the dictionary file is not found or does not load, Initialize
\* returns success and the dictionary holds every fallback entry under its
\* key.
C9_FallbackOnFailure ==
    engine.m_dictionary /\ files \in FailingFileSystems =>
        /\ ret.op = "Initialize" => ret.ok
        /\ m_entries # EmptyMap
        /\ HoldsFallback(m_entries)

\* C9 witness: Initialize returned over a file system whose first existing
\* dictionary file does not load
C9_Witness ==
    /\ ret.op = "Initialize" /\ ret.ok /\ engine.m_dictionary
    /\ files \in FailingFileSystems
    /\ ResolveDictPath(files, files.pinyin) # 0
    /\ HoldsFallback(m_entries)

\* C10: on an initialized engine ProcessInput("nihao") returns candidates.
C10_NihaoFound ==
    ret.op = "ProcessInput" /\ ret.input = "nihao" /\ engine.m_dictionary =>
        ret.result # <<>>

---------------------------------------------------------------------------
(* BopomofoScheme: the queries (bopomofo_scheme.cpp)                       *)

\* m_bopomofoToPinyin has the 37 symbols U+3105..U+3129 and the four tone
\* marks U+02C7, U+02CA, U+02CB, U+02D9 as keys. Here "b", "p", "m", "a"
\* stand for four of the symbols and "^" for a tone mark; like the
\* characters they stand for, the tone mark sorts after the space and
\* before the symbols. Every other character is in no table.
BopomofoTable == "bpma^"

\* m_bopomofoToPinyin.find(bopomofoChar) != end()
InBopomofoTable(ch) == IndexIn(BopomofoTable, ch, 0) >= 0

\* the code of a character, as operator< on std::wstring compares them
WCode(ch) ==
    IF ch = "\t" THEN 9
    ELSE IF ch = "\n" THEN 10
    ELSE IF ch = "\f" THEN 12
    ELSE IF ch = "\r" THEN 13
    ELSE IndexIn(Ascii, ch, 0) + 32

\* a < b on std::wstring, the order of the keys of m_entries
RECURSIVE WLess(_, _)
WLess(a, b) ==
    IF b = "" THEN FALSE
    ELSE IF a = "" THEN TRUE
    ELSE IF WCode(CharAt(a, 0)) # WCode(CharAt(b, 0))
    THEN WCode(CharAt(a, 0)) < WCode(CharAt(b, 0))
    ELSE WLess(SubstrFrom(a, 1), SubstrFrom(b, 1))

\* TrimAndCollapseWs: the loop from character i on, with out and
\* pendingSpace as they are there
RECURSIVE TrimLoop(_, _, _, _)
TrimLoop(input, i, out, pendingSpace) ==
    IF i >= Len(input) THEN out
    ELSE IF IsSpace(CharAt(input, i)) THEN TrimLoop(input, i + 1, out, TRUE)
    ELSE TrimLoop(input, i + 1,
                  (IF pendingSpace /\ out # "" THEN out \o " " ELSE out) \o CharAt(input, i),
                  FALSE)

TrimAndCollapseWs(input) == TrimLoop(input, 0, "", FALSE)

NormalizeForLookup(input) == TrimAndCollapseWs(input)

\* BopomofoScheme::ParseBopomofoInput: the input without its ' '
RECURSIVE ParseBopomofoInput(_)
ParseBopomofoInput(input) ==
    IF input = "" THEN ""
    ELSE (IF CharAt(input, 0) # " " THEN CharAt(input, 0) ELSE "")
         \o ParseBopomofoInput(SubstrFrom(input, 1))

\* a validity test that accepts every input that is not empty
IsValidNonEmpty(input) == input # ""

\* BopomofoScheme::IsValidBopomofoInput
IsValidBopomofoInput(input) ==
    /\ input # ""
    /\ \E i \in 0..(Len(input) - 1) :
          /\ CharAt(input, i) # " "
          /\ InBopomofoTable(CharAt(input, i))

\* the lookup of GetCandidates without the scan of the keys
MatchedEntriesExact(entries, key) == Lookup(entries, key)

\* the entries GetCandidates uses for the normalized input key: those
\* stored under key, or when there are none those of the first key of
\* m_entries, in its order, that equals the key once both are without ' '
MatchedEntries(entries, key) ==
    IF Lookup(entries, key) # <<>> THEN Lookup(entries, key)
    ELSE With(ParseBopomofoInput(key), LAMBDA needle :
        With({k \in DOMAIN entries : ParseBopomofoInput(k) = needle}, LAMBDA matching :
            IF needle = "" \/ matching = {} THEN <<>>
            ELSE entries[CHOOSE k \in matching : \A j \in matching \ {k} : WLess(k, j)]))

\* what an overflowing c.frequency += it->second may leave
OverflowOutcomes == {"wrapped", "lowest", "highest"}

\* a + b on int; for an overflowing sum, undefined behaviour, the outcome
\* named by how
IntPlus(a, b, how) ==
    IF ~AddOverflows(a, b) THEN a + b
    ELSE IF how = "wrapped" THEN WrappedSum(a, b)
    ELSE IF how = "lowest" THEN IntMin
    ELSE IntMax

\* the Candidate made of entry: the frequency cast to int, plus the user
\* word's number where m_userWords has the word
BopomofoCandidate(entry, userWords, how) ==
    Candidate(entry.word,
              IF entry.word \in DOMAIN userWords
              THEN IntPlus(U32ToInt(entry.frequency), userWords[entry.word], how)
              ELSE U32ToInt(entry.frequency),
              entry.tags)

ByFrequency(a, b) == a.frequency > b.frequency

\* the size GetCandidates cuts its result to
MaxBopomofoCandidates == 10

\* BopomofoScheme::GetCandidates: the returned candidates and the scheme
\* after the call
BopomofoGetCandidates(b, fs, input, tie, how) ==
    IF ~IsValidBopomofoInput(input) THEN [candidates |-> <<>>, scheme |-> b]
    ELSE With(EnsureDictionaryLoaded(b, fs), LAMBDA loaded :
        IF ~loaded.ok THEN [candidates |-> <<>>, scheme |-> loaded.scheme]
        ELSE With(MatchedEntries(loaded.scheme.entries, NormalizeForLookup(input)),
                  LAMBDA entries :
            [candidates |->
                Truncate(SortBy([i \in 1..Len(entries) |->
                                    BopomofoCandidate(entries[i], b.m_userWords, how)],
                                ByFrequency, tie),
                         MaxBopomofoCandidates),
             scheme |-> loaded.scheme]))

\* BopomofoScheme::AddWord: m_userWords[word] = frequency
AddWord(b, word, frequency) ==
    [b EXCEPT !.m_userWords =
        [w \in DOMAIN @ \cup {word} |-> IF w = word THEN frequency ELSE @[w]]]

\* BopomofoScheme::RemoveWord: m_userWords.erase(word)
RemoveWord(b, word) ==
    [b EXCEPT !.m_userWords = [w \in DOMAIN @ \ {word} |-> @[w]]]

---------------------------------------------------------------------------
(* A BopomofoScheme that is queried: the specification                     *)

\* what GetCandidates and ProcessInput are called on
BopomofoInputs ==
    {"", " ", "X", "1 2", "ba", "b a", " b  a ", "b\ta", "ma^", "m a ^", "bX", "p"}

\* what AddWord is called with
AddWordInputs == {<<"L", 100>>, <<"h", IntMax>>, <<"H", 1>>, <<"Z", 1>>}

InitScheme ==
    /\ m_entries = EmptyMap
    /\ m_cache = EmptyMap
    /\ ret = Return("new", "", TRUE, <<>>)
    /\ engine = NewEngine
    /\ bopomofo = NewBopomofo
    /\ manager = NewManager
    /\ factoryScheme = NoScheme
    /\ files \in SchemeFileSystems

schemeRest == <<m_entries, m_cache, files, engine, manager, factoryScheme>>

CallBopomofoGetCandidates(input) ==
    \E tie \in TieOrders, how \in OverflowOutcomes :
        \E r \in {BopomofoGetCandidates(bopomofo, files, input, tie, how)} :
            /\ bopomofo' = r.scheme
            /\ ret' = Return("BopomofoScheme::GetCandidates", input, TRUE, r.candidates)
            /\ UNCHANGED schemeRest

\* BopomofoScheme::ProcessInput: return GetCandidates(input)
CallBopomofoProcessInput(input) ==
    \E tie \in TieOrders, how \in OverflowOutcomes :
        \E r \in {BopomofoGetCandidates(bopomofo, files, input, tie, how)} :
            /\ bopomofo' = r.scheme
            /\ ret' = Return("BopomofoScheme::ProcessInput", input, TRUE, r.candidates)
            /\ UNCHANGED schemeRest

CallAddWord(word, frequency) ==
    /\ bopomofo' = AddWord(bopomofo, word, frequency)
    /\ ret' = Return("AddWord", word, TRUE, <<>>)
    /\ UNCHANGED schemeRest

CallRemoveWord(word) ==
    /\ bopomofo' = RemoveWord(bopomofo, word)
    /\ ret' = Return("RemoveWord", word, TRUE, <<>>)
    /\ UNCHANGED schemeRest

NextScheme ==
    \/ \E input \in BopomofoInputs : CallBopomofoGetCandidates(input)
    \/ \E input \in BopomofoInputs : CallBopomofoProcessInput(input)
    \/ \E a \in AddWordInputs : CallAddWord(a[1], a[2])
    \/ \E a \in AddWordInputs : CallRemoveWord(a[1])

SpecScheme == InitScheme /\ [][NextScheme]_vars

---------------------------------------------------------------------------
(* SchemeFactory, PinyinScheme and CangjieScheme (schemes.cpp)             *)

\* CreateScheme with the pinyin scheme as the default for unknown names
CreateSchemeDefaultPinyin(schemeName) ==
    IF schemeName \in {"bopomofo", "cangjie"}
    THEN [kind |-> schemeName, m_parser |-> FALSE, m_userWords |-> EmptyMap]
    ELSE [kind |-> "pinyin", m_parser |-> FALSE, m_userWords |-> EmptyMap]

\* SchemeFactory::CreateScheme: the scheme made, of kind "null" for nullptr.
\* A PinyinScheme starts with m_parser(nullptr).
CreateScheme(schemeName) ==
    IF schemeName = "pinyin"
    THEN [kind |-> "pinyin", m_parser |-> FALSE, m_userWords |-> EmptyMap]
    ELSE IF schemeName = "bopomofo"
    THEN [kind |-> "bopomofo", m_parser |-> FALSE, m_userWords |-> EmptyMap]
    ELSE IF schemeName = "cangjie"
    THEN [kind |-> "cangjie", m_parser |-> FALSE, m_userWords |-> EmptyMap]
    ELSE [kind |-> "null", m_parser |-> FALSE, m_userWords |-> EmptyMap]

\* PinyinScheme::SetParser
SetParser(s) == [s EXCEPT !.m_parser = TRUE]

\* CangjieScheme::GetCandidates and ProcessInput
CangjieGetCandidates(input) == <<>>

\* PinyinScheme::GetCandidates with the user word's number added to the
\* frequency of its word
PinyinGetCandidatesBoosted(s, cache, entries, input, tie) ==
    IF ~s.m_parser THEN [candidates |-> <<>>, cache |-> cache]
    ELSE With(ParseContinuousPinyin(cache, entries, input, tie), LAMBDA r :
        [candidates |->
            [i \in 1..Len(SchemeCandidates(r.result)) |->
                With(SchemeCandidates(r.result)[i], LAMBDA c :
                    IF c.character \in DOMAIN s.m_userWords
                    THEN [c EXCEPT !.frequency = IntPlus(@, s.m_userWords[c.character], "wrapped")]
                    ELSE c)],
         cache |-> r.cache])

\* PinyinScheme::GetCandidates: the returned candidates and the parser's
\* m_cache after the call
PinyinGetCandidates(s, cache, entries, input, tie) ==
    IF ~s.m_parser THEN [candidates |-> <<>>, cache |-> cache]
    ELSE With(ParseContinuousPinyin(cache, entries, input, tie), LAMBDA r :
        [candidates |-> SchemeCandidates(r.result), cache |-> r.cache])

\* PinyinScheme::AddWord and CangjieScheme::AddWord
SchemeAddWord(s, word, frequency) ==
    [s EXCEPT !.m_userWords =
        [w \in DOMAIN @ \cup {word} |-> IF w = word THEN frequency ELSE @[w]]]

\* PinyinScheme::RemoveWord and CangjieScheme::RemoveWord
SchemeRemoveWord(s, word) ==
    [s EXCEPT !.m_userWords = [w \in DOMAIN @ \ {word} |-> @[w]]]

---------------------------------------------------------------------------
(* A scheme made by the SchemeFactory and called through InputScheme: the  *)
(* specification                                                           *)

\* "t": A, B, C at falling frequencies; "g": G at 2^32 - 1 and g at 7
FactoryDictionary ==
    [k \in {"t", "g"} |->
        IF k = "t"
        THEN <<DictEntry("A", 30, "t", <<>>), DictEntry("B", 20, "t", <<>>),
               DictEntry("C", 10, "t", <<>>)>>
        ELSE <<[DictEntry("G", 0, "g", <<>>) EXCEPT !.frequency = U32Max],
               DictEntry("g", 7, "g", <<>>)>>]

FactoryNames == {"pinyin", "bopomofo", "cangjie", "Pinyin", "wubi", ""}
FactoryInputs == {"t", "g", "ba"}
FactoryWords == {<<"A", 100>>, <<"g", 1>>}

InitFactory ==
    /\ m_entries = FactoryDictionary
    /\ m_cache = EmptyMap
    /\ ret = Return("new", "", TRUE, <<>>)
    /\ files = [dictDir |-> FALSE, exeDir |-> FALSE,
                pinyin |-> [l \in 1..7 |-> NoFile], bopomofo |-> [l \in 1..7 |-> NoFile]]
    /\ engine = NewEngine
    /\ bopomofo = NewBopomofo
    /\ manager = NewManager
    /\ factoryScheme = NoScheme

\* SchemeFactory::CreateScheme; ok tells whether the pointer is not null
CallCreateScheme(schemeName) ==
    /\ factoryScheme' = CreateScheme(schemeName)
    /\ bopomofo' = NewBopomofo
    /\ ret' = Return("CreateScheme", schemeName, factoryScheme'.kind # "null", <<>>)
    /\ UNCHANGED <<m_entries, m_cache, files, engine, manager>>

\* PinyinScheme::SetParser with the parser over m_entries
CallSetParser ==
    /\ factoryScheme.kind = "pinyin"
    /\ factoryScheme' = SetParser(factoryScheme)
    /\ ret' = Return("SetParser", "", TRUE, <<>>)
    /\ UNCHANGED <<m_entries, m_cache, files, engine, bopomofo, manager>>

\* GetCandidates or ProcessInput (op) through the InputScheme pointer
CallSchemeQuery(op, input) ==
    /\ factoryScheme.kind \in {"pinyin", "bopomofo", "cangjie"}
    /\ \E tie \in TieOrders, how \in OverflowOutcomes :
         \E p \in {PinyinGetCandidates(factoryScheme, m_cache, m_entries, input, tie)},
            b \in {BopomofoGetCandidates(bopomofo, files, input, tie, how)} :
            /\ m_cache' = IF factoryScheme.kind = "pinyin" THEN p.cache ELSE m_cache
            /\ bopomofo' = IF factoryScheme.kind = "bopomofo" THEN b.scheme ELSE bopomofo
            /\ ret' = Return(op, input, TRUE,
                             IF factoryScheme.kind = "pinyin" THEN p.candidates
                             ELSE IF factoryScheme.kind = "bopomofo" THEN b.candidates
                             ELSE CangjieGetCandidates(input))
    /\ UNCHANGED <<m_entries, files, engine, manager, factoryScheme>>

\* AddWord through the InputScheme pointer
CallSchemeAddWord(word, frequency) ==
    /\ factoryScheme.kind \in {"pinyin", "bopomofo", "cangjie"}
    /\ IF factoryScheme.kind = "bopomofo"
       THEN bopomofo' = AddWord(bopomofo, word, frequency) /\ UNCHANGED factoryScheme
       ELSE factoryScheme' = SchemeAddWord(factoryScheme, word, frequency) /\ UNCHANGED bopomofo
    /\ ret' = Return("AddWord", word, TRUE, <<>>)
    /\ UNCHANGED <<m_entries, m_cache, files, engine, manager>>

\* RemoveWord through the InputScheme pointer
CallSchemeRemoveWord(word) ==
    /\ factoryScheme.kind \in {"pinyin", "bopomofo", "cangjie"}
    /\ IF factoryScheme.kind = "bopomofo"
       THEN bopomofo' = RemoveWord(bopomofo, word) /\ UNCHANGED factoryScheme
       ELSE factoryScheme' = SchemeRemoveWord(factoryScheme, word) /\ UNCHANGED bopomofo
    /\ ret' = Return("RemoveWord", word, TRUE, <<>>)
    /\ UNCHANGED <<m_entries, m_cache, files, engine, manager>>

NextFactory ==
    \/ \E schemeName \in FactoryNames : CallCreateScheme(schemeName)
    \/ CallSetParser
    \/ \E op \in {"GetCandidates", "ProcessInput"}, input \in FactoryInputs :
          CallSchemeQuery(op, input)
    \/ \E a \in FactoryWords : CallSchemeAddWord(a[1], a[2])
    \/ \E a \in FactoryWords : CallSchemeRemoveWord(a[1])

SpecFactory == InitFactory /\ [][NextFactory]_vars

---------------------------------------------------------------------------
(* Properties of the CandidateManager (under SpecManager and SpecSmart)    *)

\* C11: SelectCandidate(index, candidates) with index < 0 or index >=
\* length(candidates) returns failure and leaves GetSelectedCandidate and
\* HasValidSelection, and the rest of the manager, as they were; with an
\* index in range it returns success and GetSelectedCandidate becomes
\* candidates[index].
C11_SelectCandidate ==
    [][ret'.op = "SelectCandidate" =>
         \E index \in {ret'.input.index}, candidates \in {ret'.input.candidates} :
            IF index < 0 \/ index >= Len(candidates)
            THEN /\ ~ret'.ok
                 /\ GetSelectedCandidate(manager') = GetSelectedCandidate(manager)
                 /\ HasValidSelection(manager') = HasValidSelection(manager)
                 /\ UNCHANGED <<manager, m_cache, m_entries>>
            ELSE /\ ret'.ok
                 /\ GetSelectedCandidate(manager') = candidates[index + 1]]_vars

\* a call with an index past the end has failed while "A", selected by an
\* earlier call, is still the selection
C11_Witness ==
    /\ ret.op = "SelectCandidate"
    /\ ~ret.ok
    /\ ret.input.index >= Len(ret.input.candidates)
    /\ GetSelectedCandidate(manager) = "A"
    /\ HasValidSelection(manager)

\* the place of candidate c in the list seq, counted from 1
Position(c, seq) == CHOOSE i \in 1..Len(seq) : seq[i] = c /\ \A j \in 1..(i - 1) : seq[j] # c

\* C12: for every key k, candidate c of the base list of k and n > 0, c
\* stands in GetSmartSuggestions(k) after AddUserPreference(k, c, n) no later
\* than it stood immediately before the call, whichever way the sort orders
\* equal weights.
C12_BoostNeverDemotes ==
    [][(ret'.op = "AddUserPreference" /\ ret'.input.boost > 0) =>
         \E k \in {ret'.input.pinyin}, c \in {ret'.input.candidate} :
           \A tie \in TieOrders :
             \E base \in {GetCandidates(m_cache, m_entries, k, tie).candidates} :
               c \in Range(base) =>
                 \A before \in TieOrders, after \in TieOrders :
                    Position(c, SuggestionsOf(manager'.m_userPreferences, base, k, after))
                      <= Position(c, SuggestionsOf(manager.m_userPreferences, base, k, before))]_vars

\* seq holds the elements of base, each as often as base does
IsPermutation(seq, base) ==
    /\ Len(seq) = Len(base)
    /\ \A x \in Range(base) :
          Cardinality({i \in 1..Len(seq) : seq[i] = x})
            = Cardinality({i \in 1..Len(base) : base[i] = x})

\* C13: with a preference table for the input key, GetSmartSuggestions
\* returns the base candidates by weight descending (0 where none is
\* recorded), two candidates of equal weight in the order they had in the
\* base list; with no table it returns the base list unchanged.
C13_StableByWeight ==
    (ret.op = "GetSmartSuggestions" /\ ret.input \in DOMAIN m_cache) =>
        \E k \in {ret.input}, result \in {ret.result}, base \in {m_cache[ret.input].candidates} :
            IF k \in DOMAIN manager.m_userPreferences
            THEN /\ IsPermutation(result, base)
                 /\ \A i \in 1..Len(result), j \in 1..Len(result) :
                       i < j =>
                         \E wi \in {WeightOf(manager.m_userPreferences, k, result[i])},
                            wj \in {WeightOf(manager.m_userPreferences, k, result[j])} :
                            /\ wi >= wj
                            /\ wi = wj => Position(result[i], base) < Position(result[j], base)
            ELSE result = base

\* the (input, candidate) pairs with a recorded weight or a boost given
PreferencePairs(m) ==
    {<<k, c>> : k \in DOMAIN m.m_userPreferences \cup DOMAIN m.boosts,
                c \in UNION ({DOMAIN m.m_userPreferences[x] : x \in DOMAIN m.m_userPreferences}
                             \cup {DOMAIN m.boosts[x] : x \in DOMAIN m.boosts})}

\* C14: the recorded weight of every (input, candidate) pair is the sum of
\* the boosts of the AddUserPreference calls made for it so far; no other
\* operation changes a weight, and a call for one pair changes no other.
C14_WeightIsSumOfBoosts ==
    /\ [](\A p \in PreferencePairs(manager) :
             Exact(WeightOf(manager.m_userPreferences, p[1], p[2]))
               = TotalOf(manager.boosts, p[1], p[2]))
    /\ [][/\ ret'.op # "AddUserPreference" =>
               manager'.m_userPreferences = manager.m_userPreferences
          /\ ret'.op = "AddUserPreference" =>
               \A p \in PreferencePairs(manager) \cup PreferencePairs(manager') :
                  p # <<ret'.input.pinyin, ret'.input.candidate>> =>
                     WeightOf(manager'.m_userPreferences, p[1], p[2])
                       = WeightOf(manager.m_userPreferences, p[1], p[2])]_vars

\* C15: after Reset nothing is selected (HasValidSelection is false,
\* GetSelectedCandidate is empty) and the parser's cache is empty; a
\* GetCandidates(s) that finds s not cached, as every s is after Reset,
\* returns the candidates of the dictionary as it is at that call, never a
\* result cached before the Reset.
C15_ResetClears ==
    [][/\ ret'.op = "Reset" =>
            /\ ~HasValidSelection(manager')
            /\ GetSelectedCandidate(manager') = ""
            /\ m_cache' = EmptyMap
       /\ (ret'.op = "GetCandidates" /\ ret'.input \notin DOMAIN m_cache) =>
            \E tie \in TieOrders :
               ret'.result
                 = ToParseResult(GenerateCandidates(m_entries, ret'.input, tie)).candidates
       /\ (ret.op = "Reset" /\ ret'.op = "GetCandidates") =>
            ret'.input \notin DOMAIN m_cache]_vars

\* Reset was called while "A" was selected and the cache held for "u" the
\* one candidate E computed before D was added under "u"
C15_Witness ==
    /\ ret.op = "Reset"
    /\ ret.input.selected = "A"
    /\ "u" \in DOMAIN ret.input.cache
    /\ ret.input.cache["u"].candidates = <<"E">>
    /\ Len(Lookup(m_entries, "u")) = 2
    /\ m_cache = EmptyMap
    /\ ~HasValidSelection(manager)

\* how often x occurs in seq
Count(x, seq) == Cardinality({i \in 1..Len(seq) : seq[i] = x})

\* result is what is left of base, put in the order Before and cut to n
\* elements: it is in that order, holds no element more often than base,
\* has min(n, |base|) elements, and no element left out comes strictly
\* Before one that was kept
IsSortedCut(result, base, Before(_, _), n) ==
    /\ Len(result) = (IF Len(base) > n THEN n ELSE Len(base))
    /\ \A i \in 1..Len(result), j \in 1..Len(result) : i < j => ~Before(result[j], result[i])
    /\ \A x \in Range(result) : x \in Range(base) /\ Count(x, result) <= Count(x, base)
    /\ \A x \in Range(base), y \in Range(result) :
          Count(x, result) < Count(x, base) => ~Before(x, y)

\* C16: GetSmartCandidates(input, context) returns the GetCandidates(input)
\* list unchanged when context is empty or the list has fewer than 2
\* candidates; otherwise the candidates by word length, ascending when
\* length(context) < 5 and descending when length(context) >= 5, cut to at
\* most 10.
C16_SmartCandidates ==
    (ret.op = "GetSmartCandidates" /\ ret.input.input \in DOMAIN m_cache) =>
        \E context \in {ret.input.context}, base \in {m_cache[ret.input.input].candidates} :
            IF context = "" \/ Len(base) < 2 THEN ret.result = base
            ELSE IF Len(context) < 5
                 THEN IsSortedCut(ret.result, base, LengthLess, 10)
                 ELSE IsSortedCut(ret.result, base, LengthGreater, 10)

\* the twelve candidates of "m" were asked for with a context of five
\* characters: ten came back, three-character words first, a one-character
\* word last
C16_Witness ==
    /\ ret.op = "GetSmartCandidates"
    /\ ret.input.input = "m"
    /\ Len(ret.input.context) >= 5
    /\ Len(m_cache["m"].candidates) = 12
    /\ Len(ret.result) = 10
    /\ Len(ret.result[1]) = 3
    /\ Len(ret.result[10]) = 1

---------------------------------------------------------------------------
(* A Dictionary called directly: the specification                         *)

\* what Lookup is called on: keys of the dictionaries above, a prefix of a
\* key, a key in capitals, a key followed by a space, the empty string
LookupInputs == {"ni", "hao", "nihao", "a", "n", "NI", "ni ", ""}

\* Dictionary::Lookup, a const member function
CallLookup(pronunciation) ==
    /\ ret' = Return("Lookup", pronunciation, TRUE,
                     [entries |-> Lookup(m_entries, pronunciation)])
    /\ UNCHANGED <<m_entries, m_cache, engineVars>>

NextDictionary ==
    \/ \E a \in AddInputs : CallAddEntry(a[1], a[2])
    \/ \E load \in LoadOutcomes : CallLoadFromFile(load)
    \/ \E pronunciation \in LookupInputs : CallLookup(pronunciation)

SpecDictionary == InitParser /\ [][NextDictionary]_vars

---------------------------------------------------------------------------
(* Properties of the Dictionary (under SpecDictionary)                     *)

\* C17: Lookup(p) returns the entry sequence stored under p when p is a key
\* and the empty sequence, with no error, when it is not; the call leaves
\* the dictionary as it was, with no empty entry created for a missing key.
C17_LookupExact ==
    [][ret'.op = "Lookup" =>
         /\ ret'.ok
         /\ IF ret'.input \in DOMAIN m_entries
            THEN ret'.result.entries = m_entries[ret'.input]
            ELSE ret'.result.entries = <<>>
         /\ m_entries' = m_entries
         /\ DOMAIN m_entries' = DOMAIN m_entries]_vars

\* Lookup of "n", no key itself but the beginning of the key "ni" that
\* holds entries, has returned nothing
C17_Witness ==
    /\ ret.op = "Lookup"
    /\ ret.input = "n"
    /\ ret.result.entries = <<>>
    /\ Lookup(m_entries, "ni") # <<>>
    /\ "n" \notin DOMAIN m_entries

---------------------------------------------------------------------------
(* Properties of the BopomofoScheme (under SpecScheme)                     *)

BopomofoQueries == {"BopomofoScheme::GetCandidates", "BopomofoScheme::ProcessInput"}

\* the candidates returned by the last call, as their characters
ReturnedWords == [i \in 1..Len(ret.result) |-> ret.result[i].character]

\* words holds words of entries only, none more often than entries, and as
\* many as entries has, up to 10
TakenFrom(words, entries) ==
    \E stored \in {[i \in 1..Len(entries) |-> entries[i].word]} :
        /\ Len(words) = (IF Len(stored) > 10 THEN 10 ELSE Len(stored))
        /\ \A w \in Range(words) : w \in Range(stored) /\ Count(w, words) <= Count(w, stored)

\* C18: a query on a valid input, the dictionary being loaded, returns
\* candidates of the entries stored under the trimmed, whitespace-collapsed
\* input when that key has entries; otherwise of one key whose form without
\* spaces equals that of the input, when there is such a key; otherwise
\* nothing. The candidates come from one key.
C18_OneKey ==
    (ret.op \in BopomofoQueries /\ IsValidBopomofoInput(ret.input)
        /\ bopomofo.m_dictionaryLoaded) =>
        \E key \in {TrimAndCollapseWs(ret.input)}, dict \in {bopomofo.entries} :
            IF key \in DOMAIN dict /\ dict[key] # <<>>
            THEN TakenFrom(ReturnedWords, dict[key])
            ELSE \E same \in {{k \in DOMAIN dict :
                                 ParseBopomofoInput(k) = ParseBopomofoInput(key)}} :
                    IF same = {} THEN ReturnedWords = <<>>
                    ELSE \E k \in same : TakenFrom(ReturnedWords, dict[k])

\* "ma^", typed without spaces and no key itself, got the two words stored
\* under "m a ^"
C18_Witness ==
    /\ ret.op = "BopomofoScheme::GetCandidates"
    /\ ret.input = "ma^"
    /\ "ma^" \notin DOMAIN bopomofo.entries
    /\ Range(ReturnedWords) = {"H", "h"}
    /\ Len(Lookup(bopomofo.entries, "m a ^")) = 2

\* C19: every list a query returns has at most 10 candidates in the order
\* of non-increasing frequency, and the frequency of each candidate is the
\* dictionary frequency of an entry with its word plus the boost recorded
\* for the word, plus nothing when none is recorded.
C19_FrequencyPlusBoost ==
    ret.op \in BopomofoQueries =>
        /\ Len(ret.result) <= 10
        /\ \A i \in 1..Len(ret.result), j \in 1..Len(ret.result) :
              i < j => ret.result[i].frequency >= ret.result[j].frequency
        /\ \A i \in 1..Len(ret.result) :
              \E k \in DOMAIN bopomofo.entries :
                 \E e \in Range(bopomofo.entries[k]) :
                    /\ e.word = ret.result[i].character
                    /\ Exact(ret.result[i].frequency)
                         = ExactPlus(e.frequency,
                                     IF e.word \in DOMAIN bopomofo.m_userWords
                                     THEN bopomofo.m_userWords[e.word] ELSE 0)

\* some character of input that is no space is a bopomofo symbol or a tone
\* mark
HasSymbol(input) ==
    \E i \in 1..Len(input) :
        /\ SubSeq(input, i, i) \notin {" ", "\t"}
        /\ \E s \in 1..Len(BopomofoTable) : SubSeq(BopomofoTable, s, s) = SubSeq(input, i, i)

\* C20: a query on an input that is empty or has no character, spaces
\* aside, among the symbols and tone marks returns the empty list, with no
\* error and with the scheme untouched: no dictionary is created or loaded
\* for it. IsValidBopomofoInput is true of exactly the inputs that have
\* such a character.
C20_InvalidInput ==
    [][ret'.op \in BopomofoQueries =>
         /\ IsValidBopomofoInput(ret'.input) <=> HasSymbol(ret'.input)
         /\ ~HasSymbol(ret'.input) =>
              /\ ret'.ok
              /\ ret'.result = <<>>
              /\ bopomofo' = bopomofo]_vars

\* GetCandidates("X") has returned nothing and no dictionary was created,
\* though a file that loads is at hand
C20_Witness ==
    /\ ret.op = "BopomofoScheme::GetCandidates"
    /\ ret.input = "X"
    /\ ret.result = <<>>
    /\ ~bopomofo.m_dictionary
    /\ files.bopomofo[7] = File(BopomofoDoc)

\* C21: AddWord and RemoveWord leave the loaded dictionary, its keys and
\* entries, and the dictionary-loaded flag as they were; and a query that
\* follows RemoveWord(w) reports for w the dictionary frequency of an entry
\* with that word.
C21_UserWordsOnly ==
    [][/\ ret'.op \in {"AddWord", "RemoveWord"} =>
            /\ bopomofo'.entries = bopomofo.entries
            /\ bopomofo'.m_dictionary = bopomofo.m_dictionary
            /\ bopomofo'.m_dictionaryLoaded = bopomofo.m_dictionaryLoaded
       /\ (ret.op = "RemoveWord" /\ ret'.op \in BopomofoQueries) =>
            \A i \in 1..Len(ret'.result) :
               ret'.result[i].character = ret.input =>
                  \E k \in DOMAIN bopomofo'.entries :
                     \E e \in Range(bopomofo'.entries[k]) :
                        /\ e.word = ret.input
                        /\ Exact(ret'.result[i].frequency) = e.frequency]_vars

---------------------------------------------------------------------------
(* Properties of the schemes made by the SchemeFactory (under SpecFactory) *)

SchemeQueries == {"GetCandidates", "ProcessInput"}

\* C22: CreateScheme returns an instance, of the scheme named, for the
\* names "pinyin", "bopomofo" and "cangjie" and no instance for every other
\* name; the cangjie instance returns the empty list from GetCandidates and
\* ProcessInput on every input, whatever AddWord and RemoveWord did before.
C22_FactoryNames ==
    [][/\ ret'.op = "CreateScheme" =>
            IF ret'.input \in {"pinyin", "bopomofo", "cangjie"}
            THEN ret'.ok /\ factoryScheme'.kind = ret'.input
            ELSE ~ret'.ok /\ factoryScheme'.kind = "null"
       /\ (ret'.op \in SchemeQueries /\ factoryScheme.kind = "cangjie") =>
            ret'.ok /\ ret'.result = <<>>]_vars

\* the cangjie instance, given the user word "A", was asked for the
\* candidates of "t" and returned none
C22_Witness ==
    /\ factoryScheme.kind = "cangjie"
    /\ "A" \in DOMAIN factoryScheme.m_userWords
    /\ ret.op = "GetCandidates"
    /\ ret.input = "t"
    /\ ret.result = <<>>

\* C30: AddWord and RemoveWord on the pinyin scheme leave the parser's
\* cache and the dictionary as they were, and GetCandidates returns on
\* every input the same words and frequencies in the same order after the
\* call as before it; a query on a cached input returns the cached result
\* whatever the user words are.
C30_PinyinUserWordsUnused ==
    [][/\ (factoryScheme.kind = "pinyin" /\ ret'.op \in {"AddWord", "RemoveWord"}) =>
            /\ m_cache' = m_cache
            /\ m_entries' = m_entries
            /\ \A input \in FactoryInputs, tie \in TieOrders :
                  PinyinGetCandidates(factoryScheme', m_cache', m_entries', input, tie).candidates
                    = PinyinGetCandidates(factoryScheme, m_cache, m_entries, input, tie).candidates
       /\ (factoryScheme.kind = "pinyin" /\ factoryScheme.m_parser
             /\ ret'.op \in SchemeQueries /\ ret'.input \in DOMAIN m_cache) =>
            ret'.result = SchemeCandidates(m_cache[ret'.input])]_vars

\* the pinyin scheme, holding the user word "A" with 100, returns A for "t"
\* at its dictionary frequency 30
C30_Witness ==
    /\ factoryScheme.kind = "pinyin"
    /\ factoryScheme.m_parser
    /\ "A" \in DOMAIN factoryScheme.m_userWords
    /\ factoryScheme.m_userWords["A"] = 100
    /\ ret.op = "GetCandidates"
    /\ ret.input = "t"
    /\ Len(ret.result) = 3
    /\ ret.result[1] = Candidate("A", 30, <<>>)


---------------------------------------------------------------------------
(* The conversions, called directly on bounded inputs                      *)

\* m_bopomofoToPinyin as InitializeBopomofoMapping fills it, on the
\* stand-ins of BopomofoTable and four more: "i", "u", "v" stand for
\* U+3127, U+3128, U+3129, whose tokens are "i", "u", "v", and "n" stands
\* for U+3122, whose token is "an". The token of the tone mark "^"
\* (U+02C7) is "3".
BopomofoToPinyin ==
    [ch \in {"b", "p", "m", "a", "i", "u", "v", "n", "^"} |->
        IF ch = "n" THEN "an" ELSE IF ch = "^" THEN "3" ELSE ch]

\* the for loop of ConvertBopomofoToPinyin without its special rules
RECURSIVE ConvertLoopTableOnly(_, _, _)
ConvertLoopTableOnly(text, i, pinyin) ==
    IF i >= Len(text) THEN pinyin
    ELSE With(CharAt(text, i), LAMBDA ch :
           ConvertLoopTableOnly(text, i + 1,
               pinyin \o (IF ch \in DOMAIN BopomofoToPinyin
                          THEN BopomofoToPinyin[ch] ELSE ch)))

ConvertBopomofoToPinyinTableOnly(text) == ConvertLoopTableOnly(text, 0, "")

\* the for loop of ConvertBopomofoToPinyin from position i on; next_ch is
\* L'\0', here the empty string, at the last character
RECURSIVE ConvertLoop(_, _, _)
ConvertLoop(text, i, pinyin) ==
    IF i >= Len(text) THEN pinyin
    ELSE With(CharAt(text, i), LAMBDA ch :
         With(IF i + 1 < Len(text) THEN CharAt(text, i + 1) ELSE "", LAMBDA next_ch :
           IF ch = "i" /\ next_ch = "n" THEN ConvertLoop(text, i + 2, pinyin \o "ian")
           ELSE IF ch = "u" /\ next_ch = "n" THEN ConvertLoop(text, i + 2, pinyin \o "uan")
           ELSE IF ch = "v" /\ next_ch = "n" THEN ConvertLoop(text, i + 2, pinyin \o "uan")
           ELSE IF ch \in DOMAIN BopomofoToPinyin
           THEN ConvertLoop(text, i + 1, pinyin \o BopomofoToPinyin[ch])
           ELSE ConvertLoop(text, i + 1, pinyin \o ch)))

\* BopomofoScheme::ConvertBopomofoToPinyin
ConvertBopomofoToPinyin(text) == ConvertLoop(text, 0, "")

\* the texts of at most n characters of alphabet
RECURSIVE Texts(_, _)
Texts(alphabet, n) ==
    IF n = 0 THEN {""}
    ELSE With(Texts(alphabet, n - 1), LAMBDA shorter :
           shorter \cup {t \o CharAt(alphabet, i) : t \in shorter, i \in 0..(Len(alphabet) - 1)})

\* the longest text a conversion is called on
MaxTextLen == 3

\* what ConvertBopomofoToPinyin is called on: "X" is in no table
BopomofoTexts == Texts("baiuvn^X", MaxTextLen)

\* what Convert is called on: "C" is in neither table
ConvertTexts == Texts("ABC", MaxTextLen)

\* the frequency literals read: around 2^16, 2^31 and 2^32, with leading
\* zeros, and of 11, 20 and 23 digits
FrequencyLiterals ==
    {"0", "7", "007", "65535", "65536", "2147483647", "2147483648",
     "4294967295", "4294967296", "4294967300", "04294967295", "04294967296",
     "5000000000", "9999999999", "42949672950", "18446744073709551616",
     "99999999999999999999999"}

\* what ParseUnsigned is called on: the literals, alone and as they stand
\* in a file, and texts that are no number
UnsignedInputs ==
    FrequencyLiterals \cup {" " \o lit \o "}" : lit \in FrequencyLiterals}
        \cup {"", "x", "-1", " "}

\* a dictionary file whose one entry has the frequency literal lit
FrequencyDoc(lit) ==
    "{\"entries\":{\"k\":[{\"word\":\"W\",\"frequency\":" \o lit \o "}]}}"

\* LoadFromFile on the file of each literal, computed once
FrequencyLoads ==
    {[lit |-> lit, ok |-> LoadFromFile(File(FrequencyDoc(lit))).ok,
      entries |-> LoadFromFile(File(FrequencyDoc(lit))).entries] : lit \in FrequencyLiterals}

\* the calls made: each function on each of its inputs
FunctionCalls ==
    {[fn |-> "ConvertBopomofoToPinyin", text |-> text] : text \in BopomofoTexts}
        \cup {[fn |-> "Convert", text |-> text, from |-> from, to |-> to] :
                  text \in ConvertTexts, from \in Charsets, to \in Charsets}
        \cup {[fn |-> "ParseUnsigned", text |-> s] : s \in UnsignedInputs}
        \cup {[fn |-> "LoadFromFile", text |-> lit] : lit \in FrequencyLiterals}

\* a fresh Dictionary and, in ret.input, the call about to be made
InitFunctions ==
    /\ m_entries = EmptyMap
    /\ m_cache = EmptyMap
    /\ ret \in {Return("new", call, TRUE, [text |-> ""]) : call \in FunctionCalls}
    /\ files = [dictDir |-> FALSE, exeDir |-> FALSE,
                pinyin |-> [l \in 1..7 |-> NoFile], bopomofo |-> [l \in 1..7 |-> NoFile]]
    /\ engine = NewEngine
    /\ bopomofo = NewBopomofo
    /\ manager = NewManager
    /\ factoryScheme = NoScheme

CallConvertBopomofoToPinyin ==
    /\ ret.op = "new" /\ ret.input.fn = "ConvertBopomofoToPinyin"
    /\ ret' = Return("ConvertBopomofoToPinyin", ret.input, TRUE,
                     [text |-> ConvertBopomofoToPinyin(ret.input.text)])
    /\ UNCHANGED <<m_entries, m_cache, engineVars>>

CallConvert ==
    /\ ret.op = "new" /\ ret.input.fn = "Convert"
    /\ ret' = Return("Convert", ret.input, TRUE,
                     [text |-> Convert(ret.input.text, ret.input.from, ret.input.to)])
    /\ UNCHANGED <<m_entries, m_cache, engineVars>>

\* ParseUnsigned(s, i, out) with i = 0
CallParseUnsigned ==
    /\ ret.op = "new" /\ ret.input.fn = "ParseUnsigned"
    /\ \E r \in {ParseUnsigned(ret.input.text, 0)} :
          ret' = Return("ParseUnsigned", ret.input, r.ok, [i |-> r.i, out |-> r.out])
    /\ UNCHANGED <<m_entries, m_cache, engineVars>>

\* Dictionary::LoadFromFile on the file of a frequency literal
CallLoadFrequency ==
    /\ ret.op = "new" /\ ret.input.fn = "LoadFromFile"
    /\ \E load \in FrequencyLoads :
          /\ load.lit = ret.input.text
          /\ m_entries' = load.entries
          /\ ret' = Return("LoadFromFile", ret.input, load.ok, [text |-> ""])
    /\ UNCHANGED <<m_cache, engineVars>>

NextFunctions ==
    \/ CallConvertBopomofoToPinyin
    \/ CallConvert
    \/ CallParseUnsigned
    \/ CallLoadFrequency

SpecFunctions == InitFunctions /\ [][NextFunctions]_vars

---------------------------------------------------------------------------
(* Properties of the conversions (under SpecFunctions)                     *)

\* the translation of a text, symbol by symbol from the left
RECURSIVE Translated(_)
Translated(text) ==
    IF text = "" THEN ""
    ELSE IF Len(text) >= 2 /\ SubSeq(text, 1, 2) = "in"
    THEN "ian" \o Translated(SubSeq(text, 3, Len(text)))
    ELSE IF Len(text) >= 2 /\ SubSeq(text, 1, 2) \in {"un", "vn"}
    THEN "uan" \o Translated(SubSeq(text, 3, Len(text)))
    ELSE IF SubSeq(text, 1, 1) \in DOMAIN BopomofoToPinyin
    THEN BopomofoToPinyin[SubSeq(text, 1, 1)] \o Translated(SubSeq(text, 2, Len(text)))
    ELSE SubSeq(text, 1, 1) \o Translated(SubSeq(text, 2, Len(text)))

\* C23: ConvertBopomofoToPinyin translates left to right: a pair of U+3127,
\* U+3128 or U+3129 with U+3122 yields "ian", "uan", "uan" and takes both
\* symbols, any other symbol of the table yields its token, every other
\* character passes through; the two symbols of "ba" yield "ba".
C23_ConvertBopomofoToPinyin ==
    ret.op = "ConvertBopomofoToPinyin" =>
        /\ ret.result.text = Translated(ret.input.text)
        /\ ret.input.text = "ba" => ret.result.text = "ba"
        /\ ret.input.text = "in" => ret.result.text = "ian"
        /\ ret.input.text = "un" => ret.result.text = "uan"
        /\ ret.input.text = "vn" => ret.result.text = "uan"

\* the pair U+3129 U+3122 between an unmapped character and a tone mark
C23_Witness ==
    /\ ret.op = "ConvertBopomofoToPinyin"
    /\ ret.input.text = "vn^"
    /\ ret.result.text = "uan3"


\* the table Convert replaces characters by
TableOf(from, to) == IF from = "Simplified" /\ to = "Traditional" THEN S2T ELSE T2S

\* every character of text is in both tables
AllMapped(text) ==
    \A i \in 1..Len(text) : SubSeq(text, i, i) \in (DOMAIN S2T \cap DOMAIN T2S)

\* C24: for A, B in {Simplified, Traditional} and a text of mapped
\* characters, Convert(Convert(text, A, B), B, A) is text; Convert(text,
\* A, A) is text for every text; Convert never changes the length of the
\* text nor a character absent from the table it replaces by.
C24_ConvertRoundTrip ==
    ret.op = "Convert" =>
        LET text == ret.input.text
            from == ret.input.from
            to == ret.input.to
            out == ret.result.text
        IN  /\ from = to => out = text
            /\ Len(out) = Len(text)
            /\ \A i \in 1..Len(text) :
                  SubSeq(text, i, i) \notin DOMAIN TableOf(from, to) =>
                      SubSeq(out, i, i) = SubSeq(text, i, i)
            /\ AllMapped(text) => Convert(out, to, from) = text

\* a text with an unmapped character between two mapped ones, converted
\* from Simplified to Traditional
C24_Witness ==
    /\ ret.op = "Convert"
    /\ ret.input = [fn |-> "Convert", text |-> "ACB", from |-> "Simplified", to |-> "Traditional"]
    /\ ret.result.text = "ACB"

\* a literal without its leading zeros
RECURSIVE StripZeros(_)
StripZeros(lit) ==
    IF Len(lit) > 1 /\ SubSeq(lit, 1, 1) = "0" THEN StripZeros(SubSeq(lit, 2, Len(lit)))
    ELSE lit

\* the number a literal of at most nine digits denotes
RECURSIVE DecimalOf(_)
DecimalOf(lit) ==
    IF lit = "" THEN 0
    ELSE DecimalOf(SubSeq(lit, 1, Len(lit) - 1)) * 10 + DigitVal(SubSeq(lit, Len(lit), Len(lit)))

\* a < b for literals of the same length
RECURSIVE DigitsLess(_, _)
DigitsLess(a, b) ==
    IF a = "" THEN FALSE
    ELSE IF SubSeq(a, 1, 1) # SubSeq(b, 1, 1)
    THEN DigitVal(SubSeq(a, 1, 1)) < DigitVal(SubSeq(b, 1, 1))
    ELSE DigitsLess(SubSeq(a, 2, Len(a)), SubSeq(b, 2, Len(b)))

\* the number the literal denotes is at most 2^32 - 1
FitsUnsigned(lit) ==
    LET d == StripZeros(lit) IN
    Len(d) < 10 \/ (Len(d) = 10 /\ ~DigitsLess("4294967295", d))

\* the number a literal that fits denotes, as an unsigned int: its digits
\* before the last five times 100000 = 65536 + 34464, plus the last five
ExactUnsigned(lit) ==
    LET d == StripZeros(lit)
        n == IF Len(d) > 5 THEN Len(d) - 5 ELSE 0
        upper == DecimalOf(SubSeq(d, 1, n))
        rest == upper * 34464 + DecimalOf(SubSeq(d, n + 1, Len(d)))
    IN  <<upper + rest \div 65536, rest % 65536>>

\* the unsigned int a literal is to be stored as
StoredFrequency(lit) == IF FitsUnsigned(lit) THEN ExactUnsigned(lit) ELSE <<65535, 65535>>

\* C25: a frequency literal denoting at most 2^32 - 1 is stored exactly and
\* a literal denoting more, of any number of digits, is stored as
\* 4294967295; ParseUnsigned succeeds on both and the load of the file
\* that holds the literal succeeds.
C25_ClampedFrequency ==
    /\ ret.op = "ParseUnsigned" =>
          \A lit \in FrequencyLiterals :
              ret.input.text \in {lit, " " \o lit \o "}"} =>
                  ret.ok /\ ret.result.out = StoredFrequency(lit)
    /\ ret.op = "LoadFromFile" =>
          /\ ret.ok
          /\ Len(Lookup(m_entries, "k")) = 1
          /\ Lookup(m_entries, "k")[1].word = "W"
          /\ Lookup(m_entries, "k")[1].frequency = StoredFrequency(ret.input.text)

\* a file with a frequency of 23 digits was loaded and its entry holds
\* 4294967295
C25_Witness ==
    /\ ret.op = "LoadFromFile"
    /\ ret.input.text = "99999999999999999999999"
    /\ ret.ok
    /\ Lookup(m_entries, "k")[1].frequency = U32Max


---------------------------------------------------------------------------
(* The frequency of the scheme-level Candidate (under SpecFactory)         *)

\* C26: every Candidate returned by the pinyin scheme carries a frequency
\* that is not negative and equals the dictionary frequency of an entry of
\* its word under the key asked for, and the candidates come highest
\* dictionary frequency first.
C26_CandidateFrequency ==
    (ret.op \in SchemeQueries /\ factoryScheme.kind = "pinyin" /\ factoryScheme.m_parser
        /\ Len(ret.input) = 1) =>
        /\ \A i \in 1..Len(ret.result) :
              /\ ret.result[i].frequency >= 0
              /\ \E j \in 1..Len(Lookup(m_entries, ret.input)) :
                    /\ Lookup(m_entries, ret.input)[j].word = ret.result[i].character
                    /\ Lookup(m_entries, ret.input)[j].frequency = Exact(ret.result[i].frequency)
        /\ \A i \in 1..(Len(ret.result) - 1) :
              ret.result[i].frequency >= ret.result[i + 1].frequency


---------------------------------------------------------------------------
(* The dictionary after a failed load (under Spec)                         *)

\* C27: after an Initialize whose dictionary file is not found or does not
\* load, the dictionary holds the six fallback entries and nothing else.
C27_OnlyFallback ==
    (engine.m_dictionary /\ files \in FailingFileSystems) =>
        /\ m_entries = AddAll(EmptyMap, FallbackEntries)
        /\ EntryCount(m_entries) = 6


---------------------------------------------------------------------------
(* Dictionary::SaveToFile and the load of what it wrote                    *)

\* file << entry.frequency: the decimal digits of an unsigned int
RECURSIVE DecimalDigits(_)
DecimalDigits(v) ==
    IF v = U32(0) THEN ""
    ELSE With((v[1] % 10) * Half + v[2], LAMBDA low :
           DecimalDigits(<<v[1] \div 10, low \div 10>>) \o CharAt(Digits, low % 10))

ToDecimal(v) == IF v = U32(0) THEN "0" ELSE DecimalDigits(v)

\* the loop over entry.tags
RECURSIVE SaveTags(_, _)
SaveTags(tags, firstTag) ==
    IF tags = <<>> THEN ""
    ELSE (IF firstTag THEN "" ELSE ",\n")
            \o "          \"" \o Head(tags) \o "\"" \o SaveTags(Tail(tags), FALSE)

\* the loop over pair.second
RECURSIVE SaveWords(_, _)
SaveWords(list, firstWord) ==
    IF list = <<>> THEN ""
    ELSE (IF firstWord THEN "" ELSE ",\n")
            \o "      {\n"
            \o "        \"word\": \"" \o Head(list).word \o "\",\n"
            \o "        \"frequency\": " \o ToDecimal(Head(list).frequency) \o ",\n"
            \o "        \"pronunciation\": \"" \o Head(list).pronunciation \o "\",\n"
            \o "        \"tags\": [\n"
            \o SaveTags(Head(list).tags, TRUE)
            \o "\n        ]\n"
            \o "      }"
            \o SaveWords(Tail(list), FALSE)

\* the loop over m_entries, a std::map: the keys from keys in their order
RECURSIVE SaveKeys(_, _, _)
SaveKeys(entries, keys, firstEntry) ==
    IF keys = {} THEN ""
    ELSE With(CHOOSE k \in keys : \A j \in keys \ {k} : WLess(k, j), LAMBDA first :
           (IF firstEntry THEN "" ELSE ",\n")
              \o "    \"" \o first \o "\": [\n"
              \o SaveWords(entries[first], TRUE)
              \o "\n    ]"
              \o SaveKeys(entries, keys \ {first}, FALSE))

\* Dictionary::SaveToFile: the text written to an opened file, with
\* m_version, m_createdAt and m_updatedAt as the constructor sets them
SaveToFile(entries) ==
    "{\n"
      \o "  \"version\": \"1.0.0\",\n"
      \o "  \"created_at\": \"2026-01-25T00:00:00Z\",\n"
      \o "  \"updated_at\": \"2026-01-25T00:00:00Z\",\n"
      \o "  \"entries\": {\n"
      \o SaveKeys(entries, DOMAIN entries, TRUE)
      \o "\n  }\n"
      \o "}\n"

\* the entries a saved dictionary is made of: a plain one, one whose word
\* holds a double quote, one without a pronunciation at a frequency above
\* 2^31, and one for a second key
SavedPlain == DictEntry("W", 7, "k", <<"t", "u">>)
SavedQuoted == DictEntry("a\"b", 1, "k", <<>>)
SavedNoPronunciation == [DictEntry("V", 0, "", <<"t">>) EXCEPT !.frequency = <<45776, 24064>>]
SavedOther == DictEntry("X", 65536, "j", <<>>)

\* the lists of at most two of the entries of S
ListsOf(S) == {<<>>} \cup {<<a>> : a \in S} \cup {<<a, b>> : a \in S, b \in S}

\* the dictionaries saved: what AddEntry makes of the lists under "k" and
\* "j", a key being in the map once an entry was added under it
SaveDictionaries ==
    {[key \in {k \in {"k", "j"} : (IF k = "k" THEN onK ELSE onJ) # <<>>} |->
         IF key = "k" THEN onK ELSE onJ] :
       onK \in ListsOf({SavedPlain, SavedQuoted, SavedNoPronunciation}),
       onJ \in ListsOf({SavedOther})}

\* SaveToFile of each dictionary and LoadFromFile of the file written, on
\* a fresh Dictionary, computed once
SaveOutcomes ==
    {[entries |-> entries,
      text |-> SaveToFile(entries),
      ok |-> LoadFromFile(File(SaveToFile(entries))).ok,
      loaded |-> LoadFromFile(File(SaveToFile(entries))).entries] : entries \in SaveDictionaries}

\* a Dictionary holding one of the dictionaries, and no file
InitSave ==
    /\ m_entries \in SaveDictionaries
    /\ m_cache = EmptyMap
    /\ ret = Return("new", "", TRUE, [entries |-> EmptyMap])
    /\ files = [dictDir |-> FALSE, exeDir |-> FALSE,
                pinyin |-> [l \in 1..7 |-> NoFile], bopomofo |-> [l \in 1..7 |-> NoFile]]
    /\ engine = NewEngine
    /\ bopomofo = NewBopomofo
    /\ manager = NewManager
    /\ factoryScheme = NoScheme

\* Dictionary::SaveToFile(path), path being the file at location 1; opened
\* tells whether file.is_open()
CallSaveToFile(opened) ==
    /\ ret.op = "new"
    /\ \E save \in SaveOutcomes :
          /\ save.entries = m_entries
          /\ files' = IF opened THEN [files EXCEPT !.pinyin[1] = File(save.text)] ELSE files
    /\ ret' = Return("SaveToFile", "", opened, [entries |-> EmptyMap])
    /\ UNCHANGED <<m_entries, m_cache, engine, bopomofo, manager, factoryScheme>>

\* LoadFromFile(path) on a fresh Dictionary, after a save that succeeded;
\* ret.result.entries is the m_entries of that Dictionary
CallLoadSaved ==
    /\ ret.op = "SaveToFile" /\ ret.ok
    /\ \E save \in SaveOutcomes :
          /\ File(save.text) = files.pinyin[1]
          /\ ret' = Return("LoadFromFile", "", save.ok, [entries |-> save.loaded])
    /\ UNCHANGED <<m_entries, m_cache, engineVars>>

NextSave ==
    \/ \E opened \in BOOLEAN : CallSaveToFile(opened)
    \/ CallLoadSaved

SpecSave == InitSave /\ [][NextSave]_vars

\* C28: for a dictionary holding at least one entry, LoadFromFile on a fresh
\* Dictionary of the file SaveToFile wrote succeeds and yields the same
\* keys with the same entries in the same order; SaveToFile, succeeding or
\* failing, leaves the dictionary in memory as it was.
C28_SaveLoadRoundTrip ==
    [][/\ ret'.op = "SaveToFile" => m_entries' = m_entries
       /\ (ret'.op = "LoadFromFile" /\ EntryCount(m_entries) >= 1) =>
             ret'.ok /\ ret'.result.entries = m_entries]_vars


---------------------------------------------------------------------------
(* A CandidateManager whose selections are made from the lists it returned *)

\* a dictionary file whose first entry under "e" has no "word": the entry
\* is stored with the empty word of DictEntry{}
SelectionDoc == "{\"entries\":{\"t\":[{\"word\":\"A\",\"frequency\":30},{\"word\":\"B\",\"frequency\":20}],\"e\":[{\"frequency\":50},{\"word\":\"E\",\"frequency\":5}],\"u\":[{\"word\":\"F\",\"frequency\":9}]}}"

\* m_entries after LoadFromFile of that file
SelectionDictionary == LoadFromFile(File(SelectionDoc)).entries

\* "x" is no key of the dictionary
SelectionInputs == {"t", "e", "u", "x"}

InitSelection ==
    /\ m_entries = SelectionDictionary
    /\ m_cache = EmptyMap
    /\ ret = Return("new", "", TRUE, <<>>)
    /\ files = [dictDir |-> FALSE, exeDir |-> FALSE,
                pinyin |-> [l \in 1..7 |-> NoFile], bopomofo |-> [l \in 1..7 |-> NoFile]]
    /\ engine = NewEngine
    /\ bopomofo = NewBopomofo
    /\ manager = NewManager
    /\ factoryScheme = NoScheme

\* SelectCandidate(index, candidates), candidates being the list the
\* GetCandidates just before returned
CallSelectReturned(index) ==
    /\ ret.op = "GetCandidates"
    /\ CallSelectCandidate(index, ret.result)

NextSelection ==
    \/ \E input \in SelectionInputs : CallGetCandidates(input)
    \/ \E index \in SelectIndexes : CallSelectReturned(index)
    \/ CallClearSelection
    \/ CallReset

SpecSelection == InitSelection /\ [][NextSelection]_vars

\* C29: after a SelectCandidate(index, candidates) that returned success,
\* on a list the manager returned, HasValidSelection is true and
\* GetSelectedCandidate is candidates[index]; both stay so over every call
\* other than a successful SelectCandidate, ClearSelection and Reset.
C29_ValidAfterSelect ==
    [][/\ (ret'.op = "SelectCandidate" /\ ret'.ok) =>
            /\ GetSelectedCandidate(manager') = ret'.input.candidates[ret'.input.index + 1]
            /\ HasValidSelection(manager')
       /\ (HasValidSelection(manager) /\ ret'.op \notin {"ClearSelection", "Reset"}
             /\ ~(ret'.op = "SelectCandidate" /\ ret'.ok)) =>
            /\ HasValidSelection(manager')
            /\ GetSelectedCandidate(manager') = GetSelectedCandidate(manager)]_vars

=============================================================================
